---- MODULE Spec2Model ----
(***************************************************************************)
(* Policy rule chains of floww: the evaluator of packages/sdk/policies     *)
(* (evaluateRuleChain and its matchers) and the policy service that builds *)
(* a chain from a provider_access grant and the provider's default rules.  *)
(*                                                                         *)
(* JavaScript values are records tagged with their typeof: a string, a     *)
(* number, a boolean, null and undefined never compare equal to each       *)
(* other, which is what === and Array.prototype.includes decide for them.  *)
(* A call either returns a value or throws.                                *)
(***************************************************************************)
EXTENDS Integers, Sequences, FiniteSets, TLC

VARIABLES
    constraint, value, constraintResult,     \* one call of checkConstraint
    rule, actionGate, paramGate,             \* one call of the two rule gates
    chain, action, parameters, result,       \* evaluateRuleChain / evaluateAction
    providerAccess, providers, workflows, workflowFolders,   \* the tables
    pc, workflowId, providerId, currentFolderId, grant,      \* evaluateAction in flight
    defaultRules,
    crud,                                    \* the last rules CRUD call and what it returned
    evaluations,                             \* the evaluateRuleChain calls made so far
    deployment,                              \* buildRuleChainsForDeployment in flight
    snapshots,                               \* where a log is kept (SpecSnapshot): what the
                                             \* rule columns held, in order, since the
                                             \* buildRuleChain in flight was called
    http,                                    \* the last request a route handled: its
                                             \* caller, what it held and its response
    editor                                   \* the state of the rule editor of the UI

vars == <<constraint, value, constraintResult, rule, actionGate, paramGate,
          chain, action, parameters, result,
          providerAccess, providers, workflows, workflowFolders,
          pc, workflowId, providerId, currentFolderId, grant, defaultRules,
          crud, evaluations, deployment, snapshots, http, editor>>

pureVars == <<constraint, value, constraintResult, rule, actionGate, paramGate>>
tableVars == <<providerAccess, providers, workflows, workflowFolders>>
callVars == <<pc, workflowId, providerId, currentFolderId, grant, defaultRules>>
otherCalls == <<evaluations, deployment, snapshots, http, editor>>

-----------------------------------------------------------------------------
(* JavaScript values and outcomes                                          *)

Undefined == [t |-> "undefined"]
Null == [t |-> "null"]
Str(s) == [t |-> "string", s |-> s]
Num(n) == [t |-> "number", n |-> n]
Bool(b) == [t |-> "boolean", b |-> b]

Return(v) == [kind |-> "return", value |-> v]
Throw == [kind |-> "throw", error |-> "SyntaxError"]

\* A variable no call has written yet, or one the specification does not use.
NotCalled == [kind |-> "none"]

\* An object with no own properties, and a record with no optional field.
EmptyObject == <<>>

CharAt(s, i) == SubSeq(s, i, i)

Digit(d) == CharAt("0123456789", d + 1)

RECURSIVE DigitsOf(_)
DigitsOf(n) == IF n < 10 THEN Digit(n) ELSE DigitsOf(n \div 10) \o Digit(n % 10)

\* String(value) for the values a parameter bag can hold.
String(v) ==
    CASE v.t = "string" -> v.s
      [] v.t = "number" -> IF v.n < 0 THEN "-" \o DigitsOf(-v.n) ELSE DigitsOf(v.n)
      [] v.t = "boolean" -> IF v.b THEN "true" ELSE "false"
      [] v.t = "null" -> "null"
      [] v.t = "undefined" -> "undefined"

\* Array.prototype.includes over scalars (no NaN among them).
includes(array, v) == \E i \in 1..Len(array) : array[i] = v

\* String.prototype.startsWith.
startsWith(s, prefix) == Len(prefix) <= Len(s) /\ SubSeq(s, 1, Len(prefix)) = prefix

\* new RegExp(pattern) for patterns over literal characters, ".", "^", "$",
\* "(" and "[": a "(" or "[" can never be closed in this alphabet, so the
\* constructor throws a SyntaxError exactly when one occurs.
RegExpCompiles(pattern) ==
    \A i \in 1..Len(pattern) : CharAt(pattern, i) \notin {"(", "["}

\* Whether the pattern, from its character pi on, matches s from position si on.
RECURSIVE MatchAt(_, _, _, _)
MatchAt(pattern, pi, s, si) ==
    IF pi > Len(pattern) THEN TRUE
    ELSE LET c == CharAt(pattern, pi) IN
         CASE c = "^" -> si = 1 /\ MatchAt(pattern, pi + 1, s, si)
           [] c = "$" -> si = Len(s) + 1 /\ MatchAt(pattern, pi + 1, s, si)
           [] c = "." -> si <= Len(s) /\ MatchAt(pattern, pi + 1, s, si + 1)
           [] OTHER -> /\ si <= Len(s)
                       /\ CharAt(s, si) = c
                       /\ MatchAt(pattern, pi + 1, s, si + 1)

\* RegExp.prototype.test of a compiled pattern without flags: a match may start
\* at any position.
RegExpTest(pattern, s) == \E start \in 1..(Len(s) + 1) : MatchAt(pattern, 1, s, start)

-----------------------------------------------------------------------------
(* The evaluator                                                           *)

has(object, field) == field \in DOMAIN object

\* A variant that lets a rule's action match as a prefix of the action name.
ruleMatchesActionPrefix(r, a) ==
    IF r.action = Null THEN TRUE
    ELSE startsWith(a, r.action.s)

\* A variant in which only a rule that came from the grant can match.
ruleMatchesActionGrantOnly(r, a) ==
    /\ r.source = "grant"
    /\ IF r.action = Null THEN TRUE ELSE r.action = Str(a)

ruleMatchesAction(r, a) ==
    IF r.action = Null THEN TRUE
    ELSE r.action = Str(a)

\* A variant that returns after the first sub-test the constraint carries.
checkConstraintFirstOnly(c, v) ==
    IF has(c, "in") THEN Return(includes(c.in, v))
    ELSE IF has(c, "notIn") THEN Return(~includes(c.notIn, v))
    ELSE IF has(c, "eq") THEN Return(v = c.eq)
    ELSE IF has(c, "pattern") /\ ~RegExpCompiles(c.pattern) THEN Throw
    ELSE IF has(c, "pattern") THEN Return(RegExpTest(c.pattern, String(v)))
    ELSE IF has(c, "startsWith") THEN Return(startsWith(String(v), c.startsWith))
    ELSE Return(TRUE)

\* A variant whose in, notIn and eq compare the string forms of the two sides.
checkConstraintCoercing(c, v) ==
    LET among(array) == \E i \in 1..Len(array) : String(array[i]) = String(v) IN
    IF has(c, "in") /\ ~among(c.in) THEN Return(FALSE)
    ELSE IF has(c, "notIn") /\ among(c.notIn) THEN Return(FALSE)
    ELSE IF has(c, "eq") /\ String(v) # String(c.eq) THEN Return(FALSE)
    ELSE IF has(c, "pattern") /\ ~RegExpCompiles(c.pattern) THEN Throw
    ELSE IF has(c, "pattern") /\ ~RegExpTest(c.pattern, String(v)) THEN Return(FALSE)
    ELSE IF has(c, "startsWith") /\ ~startsWith(String(v), c.startsWith) THEN Return(FALSE)
    ELSE Return(TRUE)

\* A variant whose pattern and startsWith sub-tests fail for a value that is
\* not a string.
checkConstraintStringsOnly(c, v) ==
    IF has(c, "in") /\ ~includes(c.in, v) THEN Return(FALSE)
    ELSE IF has(c, "notIn") /\ includes(c.notIn, v) THEN Return(FALSE)
    ELSE IF has(c, "eq") /\ v # c.eq THEN Return(FALSE)
    ELSE IF has(c, "pattern") /\ ~RegExpCompiles(c.pattern) THEN Throw
    ELSE IF has(c, "pattern") /\ (v.t # "string" \/ ~RegExpTest(c.pattern, v.s))
         THEN Return(FALSE)
    ELSE IF has(c, "startsWith") /\ (v.t # "string" \/ ~startsWith(v.s, c.startsWith))
         THEN Return(FALSE)
    ELSE Return(TRUE)

\* A variant that catches the SyntaxError of a malformed pattern and fails the
\* sub-test instead.
checkConstraintCatching(c, v) ==
    IF has(c, "in") /\ ~includes(c.in, v) THEN Return(FALSE)
    ELSE IF has(c, "notIn") /\ includes(c.notIn, v) THEN Return(FALSE)
    ELSE IF has(c, "eq") /\ v # c.eq THEN Return(FALSE)
    ELSE IF has(c, "pattern") /\ ~RegExpCompiles(c.pattern) THEN Return(FALSE)
    ELSE IF has(c, "pattern") /\ ~RegExpTest(c.pattern, String(v)) THEN Return(FALSE)
    ELSE IF has(c, "startsWith") /\ ~startsWith(String(v), c.startsWith) THEN Return(FALSE)
    ELSE Return(TRUE)

\* A variant that compiles the pattern before it runs any sub-test.
checkConstraintEagerPattern(c, v) ==
    IF has(c, "pattern") /\ ~RegExpCompiles(c.pattern) THEN Throw
    ELSE IF has(c, "in") /\ ~includes(c.in, v) THEN Return(FALSE)
    ELSE IF has(c, "notIn") /\ includes(c.notIn, v) THEN Return(FALSE)
    ELSE IF has(c, "eq") /\ v # c.eq THEN Return(FALSE)
    ELSE IF has(c, "pattern") /\ ~RegExpTest(c.pattern, String(v)) THEN Return(FALSE)
    ELSE IF has(c, "startsWith") /\ ~startsWith(String(v), c.startsWith) THEN Return(FALSE)
    ELSE Return(TRUE)

checkConstraint(c, v) ==
    IF has(c, "in") /\ ~includes(c.in, v) THEN Return(FALSE)
    ELSE IF has(c, "notIn") /\ includes(c.notIn, v) THEN Return(FALSE)
    ELSE IF has(c, "eq") /\ v # c.eq THEN Return(FALSE)
    ELSE IF has(c, "pattern") /\ ~RegExpCompiles(c.pattern) THEN Throw
    ELSE IF has(c, "pattern") /\ ~RegExpTest(c.pattern, String(v)) THEN Return(FALSE)
    ELSE IF has(c, "startsWith") /\ ~startsWith(String(v), c.startsWith) THEN Return(FALSE)
    ELSE Return(TRUE)

\* parameters[paramName]: undefined for a name the bag does not hold.
lookup(bag, paramName) == IF has(bag, paramName) THEN bag[paramName] ELSE Undefined

\* The loop of ruleMatchesParams over Object.entries(rule.parameterConstraints),
\* a sequence of <<paramName, constraint>> in insertion order, from entry i on.
RECURSIVE entriesMatch(_, _, _)
entriesMatch(entries, bag, i) ==
    IF i > Len(entries) THEN Return(TRUE)
    ELSE LET v == lookup(bag, entries[i][1]) IN
         IF v = Undefined THEN Return(FALSE)
         ELSE LET ok == checkConstraint(entries[i][2], v) IN
              IF ok = Throw THEN Throw
              ELSE IF ~ok.value THEN Return(FALSE)
              ELSE entriesMatch(entries, bag, i + 1)

\* A variant that skips an entry whose parameter is missing instead of failing.
RECURSIVE entriesMatchSkipMissing(_, _, _)
entriesMatchSkipMissing(entries, bag, i) ==
    IF i > Len(entries) THEN Return(TRUE)
    ELSE LET v == lookup(bag, entries[i][1]) IN
         IF v = Undefined THEN entriesMatchSkipMissing(entries, bag, i + 1)
         ELSE LET ok == checkConstraint(entries[i][2], v) IN
              IF ok = Throw THEN Throw
              ELSE IF ~ok.value THEN Return(FALSE)
              ELSE entriesMatchSkipMissing(entries, bag, i + 1)

ruleMatchesParamsSkipMissing(r, bag) ==
    IF ~has(r, "parameterConstraints") THEN Return(TRUE)
    ELSE entriesMatchSkipMissing(r.parameterConstraints, bag, 1)

\* A variant in which a missing parameter makes a DENY rule match (and an ALLOW
\* rule not match).
RECURSIVE entriesMatchDenyClosed(_, _, _, _)
entriesMatchDenyClosed(entries, bag, i, effect) ==
    IF i > Len(entries) THEN Return(TRUE)
    ELSE LET v == lookup(bag, entries[i][1]) IN
         IF v = Undefined THEN Return(effect = "DENY")
         ELSE LET ok == checkConstraint(entries[i][2], v) IN
              IF ok = Throw THEN Throw
              ELSE IF ~ok.value THEN Return(FALSE)
              ELSE entriesMatchDenyClosed(entries, bag, i + 1, effect)

ruleMatchesParamsDenyClosed(r, bag) ==
    IF ~has(r, "parameterConstraints") THEN Return(TRUE)
    ELSE entriesMatchDenyClosed(r.parameterConstraints, bag, 1, r.effect)

\* A variant whose loop returns after its first entry.
ruleMatchesParamsFirstEntry(r, bag) ==
    IF ~has(r, "parameterConstraints") THEN Return(TRUE)
    ELSE IF Len(r.parameterConstraints) = 0 THEN Return(TRUE)
    ELSE entriesMatch(SubSeq(r.parameterConstraints, 1, 1), bag, 1)

ruleMatchesParams(r, bag) ==
    IF ~has(r, "parameterConstraints") THEN Return(TRUE)
    ELSE entriesMatch(r.parameterConstraints, bag, 1)

\* A variant that falls back on the synthesized text for every falsy
\* description (|| in place of ??).
reasonOfFalsy(r) ==
    IF has(r, "description") /\ r.description # "" THEN r.description
    ELSE r.effect \o " " \o (IF r.action = Null THEN "*" ELSE r.action.s)
         \o " (" \o r.source \o ")"

\* rule.description ?? `${rule.effect} ${actionDesc} (${rule.source})`: only an
\* absent description falls back, an empty one is used as it is.
reasonOf(r) ==
    IF has(r, "description") THEN r.description
    ELSE r.effect \o " " \o (IF r.action = Null THEN "*" ELSE r.action.s)
         \o " (" \o r.source \o ")"

implicitAllow == [decision |-> "ALLOWED", reason |-> "No matching rule (implicit allow)"]

\* The loop of evaluateRuleChain from rule i on. && evaluates the parameter
\* gate only when the action gate passes.
RECURSIVE evaluateFrom(_, _, _, _)
evaluateFrom(rules, a, bag, i) ==
    IF i > Len(rules) THEN Return(implicitAllow)
    ELSE IF ~ruleMatchesAction(rules[i], a) THEN evaluateFrom(rules, a, bag, i + 1)
    ELSE LET m == ruleMatchesParams(rules[i], bag) IN
         IF m = Throw THEN Throw
         ELSE IF m.value
              THEN Return([decision |-> IF rules[i].effect = "ALLOW" THEN "ALLOWED" ELSE "DENIED",
                           matchedRule |-> rules[i],
                           reason |-> reasonOf(rules[i])])
              ELSE evaluateFrom(rules, a, bag, i + 1)

\* A variant that walks the chain from its last rule to its first.
RECURSIVE evaluateBack(_, _, _, _)
evaluateBack(rules, a, bag, i) ==
    IF i < 1 THEN Return(implicitAllow)
    ELSE IF ~ruleMatchesAction(rules[i], a) THEN evaluateBack(rules, a, bag, i - 1)
    ELSE LET m == ruleMatchesParams(rules[i], bag) IN
         IF m = Throw THEN Throw
         ELSE IF m.value
              THEN Return([decision |-> IF rules[i].effect = "ALLOW" THEN "ALLOWED" ELSE "DENIED",
                           matchedRule |-> rules[i],
                           reason |-> reasonOf(rules[i])])
              ELSE evaluateBack(rules, a, bag, i - 1)

evaluateRuleChainLastMatch(ch, a, bag) == evaluateBack(ch.rules, a, bag, Len(ch.rules))

\* A variant whose no-match path denies.
evaluateRuleChainImplicitDeny(ch, a, bag) ==
    LET r == evaluateFrom(ch.rules, a, bag, 1) IN
    IF r = Return(implicitAllow)
    THEN Return([decision |-> "DENIED", reason |-> "No matching rule (implicit deny)"])
    ELSE r

\* A variant that leaves matchedRule out of a DENIED result.
evaluateRuleChainNoMatchedRule(ch, a, bag) ==
    LET r == evaluateFrom(ch.rules, a, bag, 1) IN
    IF r # Throw /\ r.value.decision = "DENIED"
    THEN Return([decision |-> "DENIED", reason |-> r.value.reason])
    ELSE r

evaluateRuleChain(ch, a, bag) == evaluateFrom(ch.rules, a, bag, 1)

-----------------------------------------------------------------------------
(* Calls of the pure functions: the initial state holds the arguments, the  *)
(* action applies the function.                                            *)

\* The sub-tests a constraint may carry, each absent or one of a few values.
InOptions == {EmptyObject, [in |-> <<Str("general"), Str("random")>>],
              [in |-> <<Str("1")>>], [in |-> <<Num(1), Bool(TRUE)>>], [in |-> <<>>]}
NotInOptions == {EmptyObject, [notIn |-> <<Str("ops")>>], [notIn |-> <<Num(1)>>],
                 [notIn |-> <<Str("1")>>]}
EqOptions == {EmptyObject, [eq |-> Str("general")], [eq |-> Str("1")],
              [eq |-> Num(1)], [eq |-> Bool(FALSE)]}
PatternOptions == {EmptyObject, [pattern |-> "^gen"], [pattern |-> "l$"],
                   [pattern |-> "1"], [pattern |-> "("]}
StartsWithOptions == {EmptyObject, [startsWith |-> "gen"], [startsWith |-> "1"],
                      [startsWith |-> "nu"], [startsWith |-> ""]}

Constraints ==
    {i @@ n @@ e @@ p @@ s : i \in InOptions, n \in NotInOptions, e \in EqOptions,
                             p \in PatternOptions, s \in StartsWithOptions}

\* Values a parameter that is present can hold.
Values == {Str("general"), Str("random"), Str("ops"), Str("1"), Str("12"), Str(""),
           Str("null"), Num(0), Num(1), Num(12), Bool(TRUE), Bool(FALSE), Null}

InitConstraint ==
    /\ constraint \in Constraints
    /\ value \in Values
    /\ constraintResult = NotCalled
    /\ rule = NotCalled /\ actionGate = NotCalled /\ paramGate = NotCalled
    /\ chain = NotCalled /\ action = NotCalled /\ parameters = NotCalled
    /\ result = NotCalled
    /\ providerAccess = NotCalled /\ providers = NotCalled
    /\ workflows = NotCalled /\ workflowFolders = NotCalled
    /\ pc = "pure" /\ workflowId = NotCalled /\ providerId = NotCalled
    /\ currentFolderId = NotCalled /\ grant = NotCalled /\ defaultRules = NotCalled
    /\ crud = NotCalled
    /\ evaluations = NotCalled /\ deployment = NotCalled /\ snapshots = NotCalled /\ http = NotCalled
    /\ editor = NotCalled

CheckConstraint ==
    /\ constraintResult = NotCalled
    /\ constraint # NotCalled
    /\ constraintResult' = checkConstraint(constraint, value)
    /\ UNCHANGED <<constraint, value, rule, actionGate, paramGate, chain, action,
                   parameters, result, tableVars, callVars, crud,
                   otherCalls>>

SpecConstraint == InitConstraint /\ [][CheckConstraint]_vars

\* Rules for one call of the gates: every effect and action with no constraint
\* map, an empty map, one entry or two entries in either insertion order.
RuleActions == {Null, Str("send"), Str("Send"), Str("")}

OneEntryConstraints ==
    {EmptyObject, [eq |-> Str("general")], [eq |-> Num(0)], [eq |-> Bool(FALSE)],
     [eq |-> Str("")], [pattern |-> "("], [startsWith |-> "nu"],
     [in |-> <<Str("general"), Str("random")>>]}

TwoEntryConstraints == {EmptyObject, [eq |-> Str("general")], [pattern |-> "("]}

ConstraintMaps ==
    {EmptyObject, [parameterConstraints |-> <<>>]}
    \cup {[parameterConstraints |-> <<<<"channel", c>>>>] : c \in OneEntryConstraints}
    \cup {[parameterConstraints |-> <<<<"channel", c>>, <<"repo", d>>>>] :
            c \in TwoEntryConstraints, d \in TwoEntryConstraints}
    \cup {[parameterConstraints |-> <<<<"repo", d>>, <<"channel", c>>>>] :
            c \in TwoEntryConstraints, d \in TwoEntryConstraints}

Rules ==
    {[effect |-> e, action |-> a, source |-> "grant"] @@ m :
        e \in {"ALLOW", "DENY"}, a \in RuleActions, m \in ConstraintMaps}

ActionNames == {"send", "Send", "sen", ""}

\* Parameter bags: a name is absent, holds undefined, or holds a value.
ChannelOptions == {EmptyObject} \cup
    {[channel |-> v] : v \in {Undefined, Null, Bool(FALSE), Num(0), Str(""), Str("general")}}
RepoOptions == {EmptyObject} \cup {[repo |-> v] : v \in {Str("general"), Null}}
Bags == {c @@ r : c \in ChannelOptions, r \in RepoOptions}

InitRule ==
    /\ rule \in Rules
    /\ action \in ActionNames
    /\ parameters \in Bags
    /\ actionGate = NotCalled /\ paramGate = NotCalled
    /\ constraint = NotCalled /\ value = NotCalled /\ constraintResult = NotCalled
    /\ chain = NotCalled /\ result = NotCalled
    /\ providerAccess = NotCalled /\ providers = NotCalled
    /\ workflows = NotCalled /\ workflowFolders = NotCalled
    /\ pc = "pure" /\ workflowId = NotCalled /\ providerId = NotCalled
    /\ currentFolderId = NotCalled /\ grant = NotCalled /\ defaultRules = NotCalled
    /\ crud = NotCalled
    /\ evaluations = NotCalled /\ deployment = NotCalled /\ snapshots = NotCalled /\ http = NotCalled
    /\ editor = NotCalled

MatchAction ==
    /\ rule # NotCalled
    /\ actionGate = NotCalled
    /\ actionGate' = Return(ruleMatchesAction(rule, action))
    /\ UNCHANGED <<constraint, value, constraintResult, rule, paramGate, chain, action,
                   parameters, result, tableVars, callVars, crud,
                   otherCalls>>

MatchParams ==
    /\ rule # NotCalled
    /\ paramGate = NotCalled
    /\ paramGate' = ruleMatchesParams(rule, parameters)
    /\ UNCHANGED <<constraint, value, constraintResult, rule, actionGate, chain, action,
                   parameters, result, tableVars, callVars, crud,
                   otherCalls>>

NextRule == MatchAction \/ MatchParams

SpecRule == InitRule /\ [][NextRule]_vars

\* Chains for one call of evaluateRuleChain: up to MaxChainLen rules, the first
\* k of them tagged "grant" and the rest "default", as buildRuleChain tags them.
MaxChainLen == 2

ChainConstraintMaps ==
    {EmptyObject,
     [parameterConstraints |-> <<<<"channel", [eq |-> Str("general")]>>>>],
     [parameterConstraints |-> <<<<"channel", [pattern |-> "("]>>>>],
     [parameterConstraints |-> <<<<"channel", [eq |-> Str("general"), pattern |-> "("]>>>>],
     [parameterConstraints |-> <<<<"channel", [pattern |-> "("]>>, <<"repo", EmptyObject>>>>]}

ChainRules ==
    {[effect |-> e, action |-> a] @@ m :
        e \in {"ALLOW", "DENY"}, a \in {Null, Str("send")}, m \in ChainConstraintMaps}
    \cup {[effect |-> "ALLOW", action |-> Str("send"), description |-> "audited"],
          [effect |-> "DENY", action |-> Null, description |-> ""],
          [effect |-> "DENY", action |-> Null,
           parameterConstraints |-> <<<<"repo", [eq |-> Str("prod")]>>,
                                      <<"channel", [pattern |-> "("]>>>>],
          [effect |-> "DENY", action |-> Null,
           parameterConstraints |->
               <<<<"channel", [in |-> <<Str("ops")>>, notIn |-> <<Str("ops")>>,
                               pattern |-> "("]>>>>]}

withSource(r, source) == [source |-> source] @@ r

Chains ==
    {[rules |-> [i \in 1..n |-> withSource(rs[i], IF i <= k THEN "grant" ELSE "default")]] :
        <<n, k, rs>> \in UNION {{n} \X (0..n) \X [1..n -> ChainRules] : n \in 0..MaxChainLen}}

ChainActionNames == {"send", "list"}

ChainBags == {EmptyObject, [channel |-> Str("general")], [channel |-> Str("ops")],
              [repo |-> Str("general")],
              [channel |-> Str("general"), repo |-> Str("general")]}

InitEval ==
    /\ chain \in Chains
    /\ action \in ChainActionNames
    /\ parameters \in ChainBags
    /\ result = NotCalled
    /\ constraint = NotCalled /\ value = NotCalled /\ constraintResult = NotCalled
    /\ rule = NotCalled /\ actionGate = NotCalled /\ paramGate = NotCalled
    /\ providerAccess = NotCalled /\ providers = NotCalled
    /\ workflows = NotCalled /\ workflowFolders = NotCalled
    /\ pc = "pure" /\ workflowId = NotCalled /\ providerId = NotCalled
    /\ currentFolderId = NotCalled /\ grant = NotCalled /\ defaultRules = NotCalled
    /\ crud = NotCalled
    /\ evaluations = NotCalled /\ deployment = NotCalled /\ snapshots = NotCalled /\ http = NotCalled
    /\ editor = NotCalled

Evaluate ==
    /\ pc = "pure"
    /\ chain # NotCalled
    /\ result = NotCalled
    /\ result' = evaluateRuleChain(chain, action, parameters)
    /\ UNCHANGED <<pureVars, chain, action, parameters, tableVars, callVars, crud,
                   otherCalls>>

SpecEval == InitEval /\ [][Evaluate]_vars

\* Repeated calls of evaluateRuleChain (SpecRepeat): up to MaxEvaluations
\* calls in a row, each on the chain, action and bag of the initial state or on
\* one of two other calls; evaluations is the log of calls and outcomes.
MaxEvaluations == 3

RepeatRules ==
    {[effect |-> "DENY", action |-> Null],
     [effect |-> "ALLOW", action |-> Str("send")],
     [effect |-> "ALLOW", action |-> Str("send"), description |-> "audited"],
     [effect |-> "DENY", action |-> Str("send"),
      parameterConstraints |-> <<<<"channel", [pattern |-> "^gen"]>>>>],
     [effect |-> "ALLOW", action |-> Str("send"),
      parameterConstraints |-> <<<<"channel", [pattern |-> "("]>>>>]}

RepeatChains ==
    {[rules |-> [i \in 1..n |-> withSource(rs[i], IF i <= k THEN "grant" ELSE "default")]] :
        <<n, k, rs>> \in UNION {{n} \X (0..n) \X [1..n -> RepeatRules] : n \in 0..MaxChainLen}}

RepeatBags == {EmptyObject, [channel |-> Str("general")]}

call(ch, a, bag) == [chain |-> ch, action |-> a, parameters |-> bag]

OtherCalls ==
    {call([rules |-> <<>>], "send", EmptyObject),
     call([rules |-> <<withSource([effect |-> "DENY", action |-> Null], "grant")>>],
          "send", [channel |-> Str("general")])}

InitRepeat ==
    /\ chain \in RepeatChains
    /\ action \in ChainActionNames
    /\ parameters \in RepeatBags
    /\ result = NotCalled
    /\ evaluations = <<>>
    /\ deployment = NotCalled /\ snapshots = NotCalled /\ http = NotCalled
    /\ editor = NotCalled
    /\ constraint = NotCalled /\ value = NotCalled /\ constraintResult = NotCalled
    /\ rule = NotCalled /\ actionGate = NotCalled /\ paramGate = NotCalled
    /\ providerAccess = NotCalled /\ providers = NotCalled
    /\ workflows = NotCalled /\ workflowFolders = NotCalled
    /\ pc = "pure" /\ workflowId = NotCalled /\ providerId = NotCalled
    /\ currentFolderId = NotCalled /\ grant = NotCalled /\ defaultRules = NotCalled
    /\ crud = NotCalled

\* A variant that keeps state between calls, as a pattern compiled once with
\* the g flag would: every second call finds no match.
EvaluateCallRemembering(c) ==
    /\ Len(evaluations) < MaxEvaluations
    /\ result' = IF Len(evaluations) % 2 = 1 THEN Return(implicitAllow)
                 ELSE evaluateRuleChain(c.chain, c.action, c.parameters)
    /\ evaluations' = Append(evaluations, [result |-> result'] @@ c)
    /\ UNCHANGED <<pureVars, chain, action, parameters, tableVars, callVars, crud,
                   deployment, snapshots, http, editor>>

\* One call evaluateRuleChain(c.chain, c.action, c.parameters).
EvaluateCall(c) ==
    /\ Len(evaluations) < MaxEvaluations
    /\ result' = evaluateRuleChain(c.chain, c.action, c.parameters)
    /\ evaluations' = Append(evaluations, [result |-> result'] @@ c)
    /\ UNCHANGED <<pureVars, chain, action, parameters, tableVars, callVars, crud,
                   deployment, snapshots, http, editor>>

EvaluateAgain == EvaluateCall(call(chain, action, parameters))

EvaluateOther == \E c \in OtherCalls : EvaluateCall(c)

NextRepeat == EvaluateAgain \/ EvaluateOther

SpecRepeat == InitRepeat /\ [][NextRepeat]_vars

-----------------------------------------------------------------------------
(* The policy service: tables, findApplicableGrant, buildRuleChain,        *)
(* evaluateAction. Every await on a query is a step of its own.            *)

Arr(items) == [t |-> "array", items |-> items]

\* JavaScript truthiness.
truthy(v) ==
    CASE v.t = "null" -> FALSE
      [] v.t = "undefined" -> FALSE
      [] v.t = "string" -> v.s # ""
      [] v.t = "number" -> v.n # 0
      [] v.t = "boolean" -> v.b
      [] OTHER -> TRUE

\* The ids of the provider_access rows the where clause of a grant query selects.
grantQuery(principleType, principleId, provider) ==
    {id \in DOMAIN providerAccess :
        /\ providerAccess[id].principleType = principleType
        /\ providerAccess[id].principleId = principleId
        /\ providerAccess[id].resourceType = "PROVIDER"
        /\ providerAccess[id].resourceId = provider}

\* What findApplicableGrant returns for a row it found.
grantOf(id) == [id |-> id, policyRules |-> providerAccess[id].policyRules]

\* workflow?.parentFolderId and folder?.parentFolderId: undefined without a row.
parentFolderOf(table, id) ==
    IF id \in DOMAIN table THEN table[id].parentFolderId ELSE Undefined

\* A variant that answers from what the provider held when the service
\* started, which is no rule.
getProviderDefaultRulesAtStart(provider) == <<>>

getProviderDefaultRules(provider) ==
    IF provider \in DOMAIN providers /\ truthy(providers[provider].defaultPolicyRules)
    THEN providers[provider].defaultPolicyRules.items
    ELSE <<>>

tagged(rules, source) == [i \in 1..Len(rules) |-> withSource(rules[i], source)]

\* A variant that puts the provider defaults before the grant rules.
buildRuleChainDefaultsFirst(g, defaults) ==
    [rules |-> tagged(defaults, "default")
               \o tagged(IF g # Null /\ truthy(g.policyRules)
                         THEN g.policyRules.items ELSE <<>>, "grant")]

\* A variant that uses the provider defaults only when there are no grant rules.
buildRuleChainGrantReplaces(g, defaults) ==
    [rules |-> IF g # Null /\ truthy(g.policyRules) /\ Len(g.policyRules.items) > 0
               THEN tagged(g.policyRules.items, "grant")
               ELSE tagged(defaults, "default")]

\* A variant that builds no chain at all for a workflow without a grant.
buildRuleChainNeedsGrant(g, defaults) ==
    IF g = Null THEN [rules |-> <<>>]
    ELSE [rules |-> tagged(IF truthy(g.policyRules) THEN g.policyRules.items ELSE <<>>,
                           "grant")
                    \o tagged(defaults, "default")]

\* The chain buildRuleChain assembles from the grant findApplicableGrant
\* returned and the array getProviderDefaultRules returned.
buildRuleChain(g, defaults) ==
    [rules |-> tagged(IF g # Null /\ truthy(g.policyRules)
                      THEN g.policyRules.items ELSE <<>>, "grant")
               \o tagged(defaults, "default")]

WorkflowIds == {"w1", "w2", "w3"}
ProviderIds == {"p1", "p2"}
ServiceActionNames == {"deleteRepo", "listRepos"}
ServiceBags == {EmptyObject, [repo |-> Str("prod")]}

\* A log of the rule columns is kept.
logged == snapshots # NotCalled

\* What the rule columns of the two tables hold.
ruleColumns ==
    [grants |-> [g \in DOMAIN providerAccess |-> providerAccess[g].policyRules],
     defaults |-> [q \in DOMAIN providers |-> providers[q].defaultPolicyRules]]

\* evaluateAction is called (by a route, which keeps its own request, or by
\* other server code).
StartEvaluateAction ==
    /\ pc = "idle"
    /\ \E w \in WorkflowIds, p \in ProviderIds, a \in ServiceActionNames, bag \in ServiceBags :
          /\ workflowId' = w
          /\ providerId' = p
          /\ action' = a
          /\ parameters' = bag
    /\ pc' = "direct"
    /\ snapshots' = IF logged THEN [states |-> <<ruleColumns>>] ELSE snapshots
    /\ UNCHANGED <<pureVars, tableVars, chain, result, currentFolderId, grant,
                   defaultRules, crud, evaluations, deployment,
                   editor>>

\* A variant that passes over a direct grant without rules and goes on to the
\* folders.
QueryDirectGrantSkipsRuleless ==
    /\ pc = "direct"
    /\ LET found == {id \in grantQuery("WORKFLOW", workflowId, providerId) :
                        truthy(providerAccess[id].policyRules)
                        /\ providerAccess[id].policyRules # Arr(<<>>)}
       IN
       IF found # {}
       THEN /\ \E id \in found : grant' = grantOf(id)
            /\ pc' = "defaults"
       ELSE /\ pc' = "workflow"
            /\ UNCHANGED grant
    /\ UNCHANGED <<pureVars, tableVars, chain, action, parameters, result, workflowId,
                   providerId, currentFolderId, defaultRules, crud,
                   otherCalls>>

\* findApplicableGrant, 1: the direct WORKFLOW grant (limit 1: any matching row).
QueryDirectGrant ==
    /\ pc = "direct"
    /\ LET found == grantQuery("WORKFLOW", workflowId, providerId) IN
       IF found # {}
       THEN /\ \E id \in found : grant' = grantOf(id)
            /\ pc' = "defaults"
       ELSE /\ pc' = "workflow"
            /\ UNCHANGED grant
    /\ UNCHANGED <<pureVars, tableVars, chain, action, parameters, result, workflowId,
                   providerId, currentFolderId, defaultRules, crud,
                   otherCalls>>

\* A variant whose walk moves to the parent of the workflow's folder before it
\* looks for a grant.
QueryWorkflowSkipsParent ==
    /\ pc = "workflow"
    /\ LET parent == parentFolderOf(workflows, workflowId) IN
       IF ~truthy(parent)
       THEN /\ grant' = Null
            /\ pc' = "defaults"
            /\ UNCHANGED currentFolderId
       ELSE /\ currentFolderId' = parent
            /\ pc' = "folderParent"
            /\ UNCHANGED grant
    /\ UNCHANGED <<pureVars, tableVars, chain, action, parameters, result, workflowId,
                   providerId, defaultRules, crud,
                   otherCalls>>

\* findApplicableGrant, 2: the workflow's parent folder.
QueryWorkflow ==
    /\ pc = "workflow"
    /\ LET parent == parentFolderOf(workflows, workflowId) IN
       IF ~truthy(parent)
       THEN /\ grant' = Null
            /\ pc' = "defaults"
            /\ UNCHANGED currentFolderId
       ELSE /\ currentFolderId' = parent
            /\ pc' = "folderGrant"
            /\ UNCHANGED grant
    /\ UNCHANGED <<pureVars, tableVars, chain, action, parameters, result, workflowId,
                   providerId, defaultRules, crud,
                   otherCalls>>

\* The loop body, first query: the FOLDER grant of the current folder.
QueryFolderGrant ==
    /\ pc = "folderGrant"
    /\ LET found == grantQuery("FOLDER", currentFolderId.s, providerId) IN
       IF found # {}
       THEN /\ \E id \in found : grant' = grantOf(id)
            /\ pc' = "defaults"
       ELSE /\ pc' = "folderParent"
            /\ UNCHANGED grant
    /\ UNCHANGED <<pureVars, tableVars, chain, action, parameters, result, workflowId,
                   providerId, currentFolderId, defaultRules, crud,
                   otherCalls>>

\* The loop body, second query: move to the parent folder; the loop ends, and
\* findApplicableGrant returns null, when there is none.
QueryFolderParent ==
    /\ pc = "folderParent"
    /\ LET parent == parentFolderOf(workflowFolders, currentFolderId.s)
           next == IF parent \in {Undefined, Null} THEN Null ELSE parent
       IN  /\ currentFolderId' = next
           /\ IF truthy(next)
              THEN pc' = "folderGrant" /\ UNCHANGED grant
              ELSE pc' = "defaults" /\ grant' = Null
    /\ UNCHANGED <<pureVars, tableVars, chain, action, parameters, result, workflowId,
                   providerId, defaultRules, crud,
                   otherCalls>>

\* A variant that answers with the defaults the provider held when
\* evaluateAction was called, as a read-through cache filled at the start would.
QueryDefaultRulesCached ==
    /\ pc = "defaults"
    /\ defaultRules' =
          (IF ~logged THEN getProviderDefaultRules(providerId)
           ELSE IF providerId \notin DOMAIN snapshots.states[1].defaults
                   \/ ~truthy(snapshots.states[1].defaults[providerId])
           THEN <<>>
           ELSE snapshots.states[1].defaults[providerId].items)
    /\ chain' = buildRuleChain(grant, defaultRules')
    /\ result' = evaluateRuleChain(chain', action, parameters)
    /\ pc' = "done"
    /\ UNCHANGED <<pureVars, tableVars, action, parameters, workflowId, providerId,
                   currentFolderId, grant, crud,
                   otherCalls>>

\* getProviderDefaultRules answers; buildRuleChain assembles the chain and
\* evaluateAction evaluates it, synchronously.
QueryDefaultRules ==
    /\ pc = "defaults"
    /\ defaultRules' = getProviderDefaultRules(providerId)
    /\ chain' = buildRuleChain(grant, defaultRules')
    /\ result' = evaluateRuleChain(chain', action, parameters)
    /\ pc' = "done"
    /\ UNCHANGED <<pureVars, tableVars, action, parameters, workflowId, providerId,
                   currentFolderId, grant, crud,
                   otherCalls>>

\* evaluateAction has returned { ...result, chain } (or thrown) to its caller.
ReturnEvaluateAction ==
    /\ pc = "done"
    /\ pc' = "idle"
    /\ chain' = NotCalled /\ action' = NotCalled /\ parameters' = NotCalled
    /\ result' = NotCalled /\ workflowId' = NotCalled /\ providerId' = NotCalled
    /\ currentFolderId' = NotCalled /\ grant' = NotCalled /\ defaultRules' = NotCalled
    /\ snapshots' = IF logged THEN [states |-> <<>>] ELSE snapshots
    /\ UNCHANGED <<pureVars, tableVars, crud, evaluations, deployment,
                   editor>>

EvaluateActionSteps ==
    \/ StartEvaluateAction /\ UNCHANGED http
    \/ QueryDirectGrant
    \/ QueryWorkflow
    \/ QueryFolderGrant
    \/ QueryFolderParent
    \/ QueryDefaultRules
    \/ ReturnEvaluateAction /\ UNCHANGED http

-----------------------------------------------------------------------------
(* evaluateAction over tables no one writes (SpecBuild). The initial state  *)
(* is either a folder hierarchy of any tree shape with any set of grants,   *)
(* or one fixed hierarchy with any stored rule arrays.                      *)

FolderIds == {"f1", "f2", "f3"}

rDeny == [effect |-> "DENY", action |-> Str("deleteRepo")]
rAllow == [effect |-> "ALLOW", action |-> Null]
rPattern == [effect |-> "DENY", action |-> Str("deleteRepo"),
             parameterConstraints |-> <<<<"repo", [pattern |-> "("]>>>>]
rAllowDelete == [effect |-> "ALLOW", action |-> Str("deleteRepo")]
rDenyList == [effect |-> "DENY", action |-> Str("listRepos")]
rDenyAll == [effect |-> "DENY", action |-> Null]
rDenyProd == [effect |-> "DENY", action |-> Null,
              parameterConstraints |-> <<<<"repo", [in |-> <<Str("prod"), Num(1)>>]>>>>]

grantRow(principleType, principleId, provider, policyRules) ==
    [principleType |-> principleType, principleId |-> principleId,
     resourceType |-> "PROVIDER", resourceId |-> provider, policyRules |-> policyRules]

folderRow(parent) == [parentFolderId |-> parent]

\* A table row that may be missing: the empty table, or the table of one row.
optionalRow(id, rows) == {EmptyObject} \cup {id :> r : r \in rows}

\* Folder tables without a cycle: a folder's parent, if any, has a higher number.
FolderTrees ==
    {a @@ b @@ c :
        a \in optionalRow("f1", {folderRow(Null), folderRow(Str("f2")), folderRow(Str("f3"))}),
        b \in optionalRow("f2", {folderRow(Null), folderRow(Str("f3"))}),
        c \in optionalRow("f3", {folderRow(Null)})}

\* Grants on p1 that may exist, each with rules of its own, and the grants on
\* p2 and of another workflow that always exist.
GrantSets ==
    {a @@ b @@ c @@ d @@ e
       @@ ("gx" :> grantRow("WORKFLOW", "w1", "p2", Arr(<<rDenyAll>>)))
       @@ ("gy" :> grantRow("FOLDER", "f1", "p2", Null))
       @@ ("gz" :> grantRow("WORKFLOW", "w2", "p1", Arr(<<rDenyAll>>))) :
        a \in optionalRow("g1", {grantRow("WORKFLOW", "w1", "p1", Arr(<<rDeny>>))}),
        b \in optionalRow("g1b", {grantRow("WORKFLOW", "w1", "p1", Null)}),
        c \in optionalRow("gf1", {grantRow("FOLDER", "f1", "p1", Arr(<<rAllowDelete>>))}),
        d \in optionalRow("gf2", {grantRow("FOLDER", "f2", "p1", Arr(<<rDenyList>>))}),
        e \in optionalRow("gf3", {grantRow("FOLDER", "f3", "p1", Null)})}

idleCall ==
    /\ pc = "idle"
    /\ chain = NotCalled /\ action = NotCalled /\ parameters = NotCalled
    /\ result = NotCalled /\ workflowId = NotCalled /\ providerId = NotCalled
    /\ currentFolderId = NotCalled /\ grant = NotCalled /\ defaultRules = NotCalled
    /\ crud = NotCalled
    /\ evaluations = NotCalled /\ deployment = NotCalled /\ snapshots = NotCalled /\ http = NotCalled
    /\ editor = NotCalled
    /\ constraint = NotCalled /\ value = NotCalled /\ constraintResult = NotCalled
    /\ rule = NotCalled /\ actionGate = NotCalled /\ paramGate = NotCalled

InitHierarchy ==
    /\ workflows \in
          {w @@ ("w2" :> folderRow(Null)) :
              w \in optionalRow("w1", {folderRow(Null), folderRow(Str("f1")),
                                       folderRow(Str("f2")), folderRow(Str("f3"))})}
    /\ workflowFolders \in FolderTrees
    /\ providerAccess \in GrantSets
    /\ providers = ("p1" :> [defaultPolicyRules |-> Arr(<<rAllow>>)])
                   @@ ("p2" :> [defaultPolicyRules |-> Null])
    /\ idleCall

\* Stored rule arrays: null, or an array of up to MaxStoredRules rules.
MaxStoredRules == 2

StoredRules == {rDeny, rAllow, rPattern}

RuleArrays == UNION {[1..n -> StoredRules] : n \in 0..MaxStoredRules}

StoredArrays == {Null} \cup {Arr(rs) : rs \in RuleArrays}

InitStoredRules ==
    /\ workflows = ("w1" :> folderRow(Str("f1"))) @@ ("w2" :> folderRow(Str("f1")))
                   @@ ("w3" :> folderRow(Null))
    /\ workflowFolders = ("f1" :> folderRow(Str("f2"))) @@ ("f2" :> folderRow(Null))
    /\ \E g \in StoredArrays, f \in {Null, Arr(<<>>), Arr(<<rAllow>>)},
          above \in optionalRow("gf2", {grantRow("FOLDER", "f2", "p1", Arr(<<rDenyList>>))}) :
          providerAccess =
              ("g1" :> grantRow("WORKFLOW", "w1", "p1", g))
              @@ ("gf1" :> grantRow("FOLDER", "f1", "p1", f))
              @@ above
              @@ ("gx" :> grantRow("WORKFLOW", "w1", "p2", Arr(<<rDenyAll>>)))
    /\ \E d \in StoredArrays, other \in optionalRow("p2", {[defaultPolicyRules |-> Null]}) :
          providers = ("p1" :> [defaultPolicyRules |-> d]) @@ other
    /\ idleCall

InitBuild == InitHierarchy \/ InitStoredRules

SpecBuild == InitBuild /\ [][EvaluateActionSteps]_vars

-----------------------------------------------------------------------------
(* One call of findApplicableGrant over any stored parent relation          *)
(* (SpecWalk): the parentFolderId column is a plain id, so a folder table   *)
(* may hold a folder that is its own parent, a cycle of folders, or a       *)
(* parent id without a row. The initial state holds the arguments of the    *)
(* call; the call has returned to buildRuleChain when pc = "defaults".      *)
(* Every awaited query answers in the end (weak fairness of the steps).     *)

FolderGraphs ==
    {a @@ b @@ c :
        a \in optionalRow("f1", {folderRow(Null)} \cup {folderRow(Str(f)) : f \in FolderIds}),
        b \in optionalRow("f2", {folderRow(Null)} \cup {folderRow(Str(f)) : f \in FolderIds}),
        c \in optionalRow("f3", {folderRow(Null)} \cup {folderRow(Str(f)) : f \in FolderIds})}

InitWalk ==
    /\ workflows = ("w1" :> folderRow(Str("f1"))) @@ ("w2" :> folderRow(Null))
    /\ workflowFolders \in FolderGraphs
    /\ providerAccess \in
          {a @@ b @@ ("gx" :> grantRow("WORKFLOW", "w2", "p2", Arr(<<rDenyAll>>))) :
              a \in optionalRow("gf2", {grantRow("FOLDER", "f2", "p1", Arr(<<rDenyList>>))}),
              b \in optionalRow("gf3", {grantRow("FOLDER", "f3", "p1", Null)})}
    /\ providers = ("p1" :> [defaultPolicyRules |-> Arr(<<rAllow>>)])
                   @@ ("p2" :> [defaultPolicyRules |-> Null])
    /\ pc = "direct"
    /\ workflowId \in WorkflowIds
    /\ providerId \in ProviderIds
    /\ chain = NotCalled /\ action = NotCalled /\ parameters = NotCalled
    /\ result = NotCalled
    /\ currentFolderId = NotCalled /\ grant = NotCalled /\ defaultRules = NotCalled
    /\ crud = NotCalled
    /\ evaluations = NotCalled /\ deployment = NotCalled /\ snapshots = NotCalled /\ http = NotCalled
    /\ editor = NotCalled
    /\ constraint = NotCalled /\ value = NotCalled /\ constraintResult = NotCalled
    /\ rule = NotCalled /\ actionGate = NotCalled /\ paramGate = NotCalled

FindApplicableGrantSteps ==
    \/ QueryDirectGrant
    \/ QueryWorkflow
    \/ QueryFolderGrant
    \/ QueryFolderParent

SpecWalk ==
    InitWalk /\ [][FindApplicableGrantSteps]_vars /\ WF_vars(FindApplicableGrantSteps)

-----------------------------------------------------------------------------------------------------------------------------------------------------
(* buildRuleChainsForDeployment over tables no one writes (SpecDeploy): one  *)
(* buildRuleChain per mapped provider, in the order of Object.entries.       *)
(* deployment holds the mappings, the index of the one in hand and the       *)
(* chains object built so far.                                              *)

\* providerMappings, flattened: a sequence of <<providerType, codeAlias,
\* providerId>> of up to MaxMappings entries, no two with the same type and
\* alias (they are keys of objects) and the entries of one type in a row.
MaxMappings == 2

ProviderTypes == {"slack", "gitlab"}
CodeAliases == {"default", "ops:eu"}
MappedProviderIds == ProviderIds \cup {"p0"}

grouped(m) ==
    \A i, j, k \in 1..Len(m) : (i < j /\ j < k /\ m[i][1] = m[k][1]) => m[j][1] = m[i][1]

ProviderMappings ==
    UNION {{m \in [1..n -> ProviderTypes \X CodeAliases \X MappedProviderIds] :
               /\ \A i, j \in 1..n : (m[i][1] = m[j][1] /\ m[i][2] = m[j][2]) => i = j
               /\ grouped(m)} : n \in 0..MaxMappings}

\* `${providerType}:${codeAlias}`
keyOf(mapping) == mapping[1] \o ":" \o mapping[2]

InitDeploy ==
    /\ workflows = ("w1" :> folderRow(Str("f1"))) @@ ("w2" :> folderRow(Str("f1")))
                   @@ ("w3" :> folderRow(Null))
    /\ workflowFolders = ("f1" :> folderRow(Str("f2"))) @@ ("f2" :> folderRow(Null))
    /\ \E g \in {Null, Arr(<<>>), Arr(<<rDeny>>)} :
          providerAccess =
              ("g1" :> grantRow("WORKFLOW", "w1", "p1", g))
              @@ ("gf1" :> grantRow("FOLDER", "f1", "p1", Arr(<<rAllowDelete>>)))
              @@ ("gx" :> grantRow("WORKFLOW", "w1", "p2", Arr(<<rDenyAll>>)))
    /\ \E d \in {Null, Arr(<<rAllow>>)} :
          providers = ("p1" :> [defaultPolicyRules |-> d])
                      @@ ("p2" :> [defaultPolicyRules |-> Null])
    /\ idleCall

\* buildRuleChainsForDeployment is called.
StartBuildRuleChainsForDeployment ==
    /\ pc = "idle"
    /\ \E w \in WorkflowIds, m \in ProviderMappings :
          /\ workflowId' = w
          /\ deployment' = [providerMappings |-> m, i |-> 1, chains |-> EmptyObject]
    /\ pc' = "mapping"
    /\ UNCHANGED <<pureVars, tableVars, chain, action, parameters, result, providerId,
                   currentFolderId, grant, defaultRules, crud, evaluations, snapshots, http, editor>>

\* The loops go on to the next mapping and call buildRuleChain for its
\* provider, or end.
NextMapping ==
    /\ pc = "mapping"
    /\ IF deployment.i <= Len(deployment.providerMappings)
       THEN /\ providerId' = deployment.providerMappings[deployment.i][3]
            /\ pc' = "direct"
       ELSE /\ pc' = "returned"
            /\ UNCHANGED providerId
    /\ UNCHANGED <<pureVars, tableVars, chain, action, parameters, result, workflowId,
                   currentFolderId, grant, defaultRules, crud, otherCalls>>

\* A variant that keeps every chain, the empty ones too.
StoreChainAlways ==
    /\ pc = "defaults"
    /\ deployment # NotCalled
    /\ defaultRules' = getProviderDefaultRules(providerId)
    /\ chain' = buildRuleChain(grant, defaultRules')
    /\ deployment' =
          [deployment EXCEPT
              !.chains = (keyOf(deployment.providerMappings[deployment.i]) :> chain') @@ @,
              !.i = @ + 1]
    /\ pc' = "mapping"
    /\ UNCHANGED <<pureVars, tableVars, action, parameters, result, workflowId,
                   providerId, currentFolderId, grant, crud, evaluations,
                   snapshots, http, editor>>

\* getProviderDefaultRules answers; buildRuleChain returns the chain, which is
\* stored under its key when it has a rule.
StoreChain ==
    /\ pc = "defaults"
    /\ deployment # NotCalled
    /\ defaultRules' = getProviderDefaultRules(providerId)
    /\ chain' = buildRuleChain(grant, defaultRules')
    /\ deployment' =
          [deployment EXCEPT
              !.chains = IF Len(chain'.rules) > 0
                         THEN (keyOf(deployment.providerMappings[deployment.i]) :> chain') @@ @
                         ELSE @,
              !.i = @ + 1]
    /\ pc' = "mapping"
    /\ UNCHANGED <<pureVars, tableVars, action, parameters, result, workflowId,
                   providerId, currentFolderId, grant, crud, evaluations,
                   snapshots, http, editor>>

\* buildRuleChainsForDeployment has returned chains to its caller.
ReturnChains ==
    /\ pc = "returned"
    /\ pc' = "idle"
    /\ chain' = NotCalled /\ workflowId' = NotCalled /\ providerId' = NotCalled
    /\ currentFolderId' = NotCalled /\ grant' = NotCalled /\ defaultRules' = NotCalled
    /\ deployment' = NotCalled
    /\ UNCHANGED <<pureVars, tableVars, action, parameters, result, crud, evaluations,
                   snapshots, http, editor>>

NextDeploy ==
    \/ StartBuildRuleChainsForDeployment
    \/ NextMapping
    \/ QueryDirectGrant
    \/ QueryWorkflow
    \/ QueryFolderGrant
    \/ QueryFolderParent
    \/ StoreChain
    \/ ReturnChains

SpecDeploy == InitDeploy /\ [][NextDeploy]_vars

-----------------------------------------------------------------------------
(* The rules CRUD calls, each of which is one SQL statement. crud holds the   *)
(* last call: its function, its arguments, what it returned, whether an       *)
(* evaluateAction call was in flight when it ran and, for a read, the call    *)
(* before it.                                                                *)

\* Arrays a caller writes: up to MaxWrittenRules rules.
MaxWrittenRules == 2

WrittenArrays == UNION {[1..n -> {rDeny, rAllow}] : n \in 0..MaxWrittenRules}

\* The arrays written while evaluateAction calls are in flight.
EditedArrays == {<<>>, <<rDeny>>, <<rAllow, rDeny>>}

\* The ids the CRUD calls are made with: a row that exists and one that does not.
GrantIdsCalled == {"g1", "g0"}
ProviderIdsCalled == {"p1", "p0"}

\* A variant that returns what the column holds, null included.
asStored(v) == v

\* (row.policyRules as PolicyRule[] | null) ?? []
orEmpty(v) == IF v \in {Null, Undefined} THEN Arr(<<>>) ELSE v

\* A variant that keeps only the first rule of the array.
firstRuleOrNull(rules) == IF Len(rules) > 0 THEN Arr(<<rules[1]>>) ELSE Null

\* rules.length > 0 ? rules : null
orNull(rules) == IF Len(rules) > 0 THEN Arr(rules) ELSE Null

inFlight == pc # "idle"

\* buildRuleChain is in flight: evaluateAction has been called and has not got
\* its chain yet.
building == pc \in {"direct", "workflow", "folderGrant", "folderParent", "defaults"}

\* Writes that land while one buildRuleChain is in flight, where a log of
\* them is kept: at most this many.
MaxEditsInFlight == 2

\* The call before, without the call before it.
lastCall == IF crud = NotCalled THEN NotCalled
            ELSE [f \in DOMAIN crud \ {"previous"} |-> crud[f]]

GetGrantRules ==
    /\ \E id \in GrantIdsCalled :
          crud' = [fn |-> "getGrantRules", id |-> id,
                   returned |-> IF id \notin DOMAIN providerAccess THEN Null
                                ELSE orEmpty(providerAccess[id].policyRules),
                   during |-> inFlight, previous |-> lastCall]
    /\ UNCHANGED <<pureVars, tableVars, chain, action, parameters, result, callVars,
                   otherCalls>>

\* getProviderDefaultRules called for its own sake (the default-rules read route).
GetProviderDefaultRules ==
    /\ \E id \in ProviderIdsCalled :
          crud' = [fn |-> "getProviderDefaultRules", id |-> id,
                   returned |-> Arr(getProviderDefaultRules(id)),
                   during |-> inFlight, previous |-> lastCall]
    /\ UNCHANGED <<pureVars, tableVars, chain, action, parameters, result, callVars,
                   otherCalls>>

\* A variant whose update has no where clause: it writes the array to every
\* grant.
SetGrantRulesEveryRow(arrays) ==
    /\ (logged /\ building) => Len(snapshots.states) <= MaxEditsInFlight
    /\ \E id \in GrantIdsCalled, rules \in arrays :
          IF id \in DOMAIN providerAccess
          THEN /\ providerAccess' =
                     [g \in DOMAIN providerAccess |->
                         [providerAccess[g] EXCEPT !.policyRules = orNull(rules)]]
               /\ crud' = [fn |-> "setGrantRules", id |-> id, rules |-> rules,
                           returned |-> orEmpty(providerAccess'[id].policyRules),
                           during |-> inFlight]
          ELSE /\ crud' = [fn |-> "setGrantRules", id |-> id, rules |-> rules,
                           returned |-> Null, during |-> inFlight]
               /\ UNCHANGED providerAccess
    /\ UNCHANGED <<pureVars, providers, workflows, workflowFolders, chain, action,
                   parameters, result, callVars, evaluations, deployment,
                   editor>>
    /\ snapshots' = IF logged /\ building /\ ruleColumns' # ruleColumns
                    THEN [states |-> Append(snapshots.states, ruleColumns')]
                    ELSE snapshots

\* setGrantRules(id, rules), rules being one of the given arrays.
SetGrantRules(arrays) ==
    /\ (logged /\ building) => Len(snapshots.states) <= MaxEditsInFlight
    /\ \E id \in GrantIdsCalled, rules \in arrays :
          IF id \in DOMAIN providerAccess
          THEN /\ providerAccess' = [providerAccess EXCEPT ![id].policyRules = orNull(rules)]
               /\ crud' = [fn |-> "setGrantRules", id |-> id, rules |-> rules,
                           returned |-> orEmpty(providerAccess'[id].policyRules),
                           during |-> inFlight]
          ELSE /\ crud' = [fn |-> "setGrantRules", id |-> id, rules |-> rules,
                           returned |-> Null, during |-> inFlight]
               /\ UNCHANGED providerAccess
    /\ UNCHANGED <<pureVars, providers, workflows, workflowFolders, chain, action,
                   parameters, result, callVars, evaluations, deployment,
                   editor>>
    /\ snapshots' = IF logged /\ building /\ ruleColumns' # ruleColumns
                    THEN [states |-> Append(snapshots.states, ruleColumns')]
                    ELSE snapshots

\* setProviderDefaultRules(id, rules), rules being one of the given arrays.
SetProviderDefaultRules(arrays) ==
    /\ (logged /\ building) => Len(snapshots.states) <= MaxEditsInFlight
    /\ \E id \in ProviderIdsCalled, rules \in arrays :
          IF id \in DOMAIN providers
          THEN /\ providers' = [providers EXCEPT ![id].defaultPolicyRules = orNull(rules)]
               /\ crud' = [fn |-> "setProviderDefaultRules", id |-> id, rules |-> rules,
                           returned |-> orEmpty(providers'[id].defaultPolicyRules),
                           during |-> inFlight]
          ELSE /\ crud' = [fn |-> "setProviderDefaultRules", id |-> id, rules |-> rules,
                           returned |-> Null, during |-> inFlight]
               /\ UNCHANGED providers
    /\ UNCHANGED <<pureVars, providerAccess, workflows, workflowFolders, chain, action,
                   parameters, result, callVars, evaluations, deployment,
                   editor>>
    /\ snapshots' = IF logged /\ building /\ ruleColumns' # ruleColumns
                    THEN [states |-> Append(snapshots.states, ruleColumns')]
                    ELSE snapshots

Init ==
    /\ workflows = ("w1" :> folderRow(Str("f1"))) @@ ("w2" :> folderRow(Str("f1")))
                   @@ ("w3" :> folderRow(Null))
    /\ workflowFolders = ("f1" :> folderRow(Str("f2"))) @@ ("f2" :> folderRow(Null))
    /\ providerAccess = ("g1" :> grantRow("WORKFLOW", "w1", "p1", Null))
                        @@ ("gf1" :> grantRow("FOLDER", "f1", "p1", Arr(<<rDenyList>>)))
                        @@ ("gx" :> grantRow("WORKFLOW", "w1", "p2", Arr(<<rDenyAll>>)))
    /\ providers = ("p1" :> [defaultPolicyRules |-> Null])
                   @@ ("p2" :> [defaultPolicyRules |-> Null])
    /\ idleCall

\* The rules CRUD calls alone, in any order (SpecCrud).
NextCrud ==
    \/ GetGrantRules
    \/ GetProviderDefaultRules
    \/ SetGrantRules(WrittenArrays) /\ UNCHANGED http
    \/ SetProviderDefaultRules(WrittenArrays) /\ UNCHANGED http

SpecCrud == Init /\ [][NextCrud]_vars

\* The policy service with rule edits (Spec): evaluateAction calls whose
\* queries interleave with the writes of the rules.
Next ==
    \/ EvaluateActionSteps
    \/ SetGrantRules(EditedArrays) /\ UNCHANGED http
    \/ SetProviderDefaultRules(EditedArrays) /\ UNCHANGED http

Spec == Init /\ [][Next]_vars

\* The same calls with a log of what the rule columns held during each
\* buildRuleChain (SpecSnapshot); the arrays written are the empty one and
\* one rule.
LoggedArrays == {<<>>, <<rDeny>>}

InitSnapshot ==
    /\ workflows = ("w1" :> folderRow(Str("f1"))) @@ ("w2" :> folderRow(Str("f1")))
                   @@ ("w3" :> folderRow(Null))
    /\ workflowFolders = ("f1" :> folderRow(Str("f2"))) @@ ("f2" :> folderRow(Null))
    /\ providerAccess = ("g1" :> grantRow("WORKFLOW", "w1", "p1", Arr(<<rAllow>>)))
                        @@ ("gf1" :> grantRow("FOLDER", "f1", "p1", Arr(<<rDenyList>>)))
                        @@ ("gx" :> grantRow("WORKFLOW", "w1", "p2", Arr(<<rDenyAll>>)))
    /\ providers = ("p1" :> [defaultPolicyRules |-> Null])
                   @@ ("p2" :> [defaultPolicyRules |-> Null])
    /\ pc = "idle"
    /\ chain = NotCalled /\ action = NotCalled /\ parameters = NotCalled
    /\ result = NotCalled /\ workflowId = NotCalled /\ providerId = NotCalled
    /\ currentFolderId = NotCalled /\ grant = NotCalled /\ defaultRules = NotCalled
    /\ crud = NotCalled
    /\ evaluations = NotCalled /\ deployment = NotCalled
    /\ snapshots = [states |-> <<>>] /\ http = NotCalled
    /\ editor = NotCalled
    /\ constraint = NotCalled /\ value = NotCalled /\ constraintResult = NotCalled
    /\ rule = NotCalled /\ actionGate = NotCalled /\ paramGate = NotCalled

NextSnapshot ==
    \/ EvaluateActionSteps
    \/ SetGrantRules(LoggedArrays) /\ UNCHANGED http
    \/ SetProviderDefaultRules(LoggedArrays) /\ UNCHANGED http

SpecSnapshot == InitSnapshot /\ [][NextSnapshot]_vars

-----------------------------------------------------------------------------
(* The policy routes. The router and the access services are not part of   *)
(* the sources at hand: errorResponse and json are taken to build a        *)
(* response of the given status, and hasWorkflowAccess / hasProviderAccess *)
(* to look the id up among those the user can reach.                       *)

errorResponse(message, status) == [status |-> status, error |-> message]
json(data) == [status |-> 200, data |-> data]

\* ctx.user: nobody, an admin, a member who can reach w1 and p1, and a guest
\* who can reach nothing.
Users ==
    {Null,
     [id |-> "admin", isAdmin |-> TRUE, workflows |-> {}, providers |-> {}],
     [id |-> "member", isAdmin |-> FALSE, workflows |-> {"w1"}, providers |-> {"p1"}],
     [id |-> "guest", isAdmin |-> FALSE, workflows |-> {}, providers |-> {}]}

hasWorkflowAccess(user, workflow) == workflow \in user.workflows
hasProviderAccess(user, provider) == provider \in user.providers

\* Array.prototype.join over strings.
RECURSIVE join(_, _)
join(strings, separator) ==
    IF Len(strings) = 0 THEN ""
    ELSE IF Len(strings) = 1 THEN strings[1]
    ELSE strings[1] \o separator \o join(Tail(strings), separator)

\* The text the dry run shows for one constraint entry [k, v].
constraintDesc(k, v) ==
    LET strings(array) == [i \in 1..Len(array) |-> String(array[i])] IN
    IF has(v, "in") THEN k \o " IN [" \o join(strings(v.in), ", ") \o "]"
    ELSE IF has(v, "eq") THEN k \o " = " \o String(v.eq)
    ELSE IF has(v, "pattern") /\ v.pattern # "" THEN k \o " ~ " \o v.pattern
    ELSE IF has(v, "startsWith") /\ v.startsWith # ""
         THEN k \o " starts with " \o v.startsWith
    ELSE IF has(v, "notIn") THEN k \o " NOT IN [" \o join(strings(v.notIn), ", ") \o "]"
    ELSE k

\* `${rule.effect} ${actionDesc}${constraintDesc}`
ruleDesc(r) ==
    r.effect \o " " \o (IF r.action = Null THEN "*" ELSE r.action.s)
    \o (IF has(r, "parameterConstraints")
        THEN " where " \o join([i \in 1..Len(r.parameterConstraints) |->
                                   constraintDesc(r.parameterConstraints[i][1],
                                                  r.parameterConstraints[i][2])], ", ")
        ELSE "")

\* The position in chain.rules of the object evaluateRuleChain returned as
\* matchedRule, 0 when it returned none: buildRuleChain makes one object per
\* position and the loop returns the object it stands at.
RECURSIVE matchedRuleAt(_, _, _, _)
matchedRuleAt(rules, a, bag, i) ==
    IF i > Len(rules) THEN 0
    ELSE IF ruleMatchesAction(rules[i], a) /\ ruleMatchesParams(rules[i], bag) = Return(TRUE)
         THEN i
    ELSE matchedRuleAt(rules, a, bag, i + 1)

\* A variant that compares each rule with matchedRule field by field.
chainEvaluatedByValue(rules, at) ==
    [i \in 1..Len(rules) |->
        [rule |-> ruleDesc(rules[i]), source |-> rules[i].source,
         matched |-> at # 0 /\ rules[i] = rules[at]]]

\* chainEvaluated: rule === result.matchedRule holds for the one object at
\* the matched position.
chainEvaluated(rules, at) ==
    [i \in 1..Len(rules) |->
        [rule |-> ruleDesc(rules[i]), source |-> rules[i].source, matched |-> i = at]]

\* The matchedRule of the response: four fields of it, or null.
matchedRuleShown(res) ==
    IF has(res, "matchedRule")
    THEN [effect |-> res.matchedRule.effect, action |-> res.matchedRule.action,
          source |-> res.matchedRule.source]
         @@ (IF has(res.matchedRule, "description")
             THEN [description |-> res.matchedRule.description] ELSE EmptyObject)
    ELSE Null

evaluateRoute == "POST /policies/evaluate"

\* The handler of POST /policies/evaluate up to its call of evaluateAction:
\* 401 without a user, the parse error for a body the schema rejects, 403 for
\* a user who is neither admin nor has access to the workflow.
PostPoliciesEvaluate ==
    /\ pc = "idle"
    /\ \E user \in Users, valid \in BOOLEAN :
          IF user = Null
          THEN /\ http' = [route |-> evaluateRoute, user |-> user, body |-> NotCalled,
                           chain |-> NotCalled,
                           response |-> errorResponse("Unauthorized", 401)]
               /\ UNCHANGED <<pureVars, tableVars, chain, action, parameters, result,
                              callVars, crud, evaluations, deployment, snapshots,
                            editor>>
          ELSE IF ~valid
          THEN /\ http' = [route |-> evaluateRoute, user |-> user, body |-> NotCalled,
                           chain |-> NotCalled,
                           response |-> errorResponse("Invalid request", 400)]
               /\ UNCHANGED <<pureVars, tableVars, chain, action, parameters, result,
                              callVars, crud, evaluations, deployment, snapshots,
                            editor>>
          ELSE \/ /\ StartEvaluateAction
                  /\ hasWorkflowAccess(user, workflowId') \/ user.isAdmin
                  /\ http' = [route |-> evaluateRoute, user |-> user,
                              body |-> [workflowId |-> workflowId',
                                        providerId |-> providerId',
                                        action |-> action', parameters |-> parameters'],
                              chain |-> NotCalled, response |-> NotCalled]
               \/ /\ \E w \in WorkflowIds, p \in ProviderIds, a \in ServiceActionNames,
                        bag \in ServiceBags :
                        /\ ~hasWorkflowAccess(user, w) /\ ~user.isAdmin
                        /\ http' = [route |-> evaluateRoute, user |-> user,
                                    body |-> [workflowId |-> w, providerId |-> p,
                                              action |-> a, parameters |-> bag],
                                    chain |-> NotCalled,
                                    response |-> errorResponse("Access denied", 403)]
                  /\ UNCHANGED <<pureVars, tableVars, chain, action, parameters, result,
                                 callVars, crud, evaluations, deployment, snapshots,
                            editor>>

\* evaluateAction has returned to the handler, which formats the chain and
\* responds; when it threw, the handler ends with the error.
RespondPoliciesEvaluate ==
    /\ pc = "done"
    /\ http' = [http EXCEPT
                  !.chain = chain,
                  !.response =
                      IF result = Throw THEN Throw
                      ELSE json([decision |-> result.value.decision,
                                 matchedRule |-> matchedRuleShown(result.value),
                                 chainEvaluated |->
                                     chainEvaluated(chain.rules,
                                                    matchedRuleAt(chain.rules, action,
                                                                  parameters, 1))])]
    /\ ReturnEvaluateAction

\* Dry runs over tables no one writes (SpecDryRun): w1 has a direct grant on
\* p1 whose rules, like the defaults of p1, may repeat a rule; w2 lies in a
\* folder without grants.
InitDryRun ==
    /\ workflows = ("w1" :> folderRow(Null)) @@ ("w2" :> folderRow(Str("f1")))
    /\ workflowFolders = ("f1" :> folderRow(Null))
    /\ \E g, d \in {Null, Arr(<<rDeny, rDeny>>), Arr(<<rAllow, rDeny>>),
                      Arr(<<rDenyProd, rDenyProd>>), Arr(<<rPattern>>)} :
          /\ providerAccess = ("g1" :> grantRow("WORKFLOW", "w1", "p1", g))
          /\ providers = ("p1" :> [defaultPolicyRules |-> d])
                         @@ ("p2" :> [defaultPolicyRules |-> Null])
    /\ idleCall

NextDryRun ==
    \/ PostPoliciesEvaluate
    \/ QueryDirectGrant
    \/ QueryWorkflow
    \/ QueryFolderGrant
    \/ QueryFolderParent
    \/ QueryDefaultRules
    \/ RespondPoliciesEvaluate

SpecDryRun == InitDryRun /\ [][NextDryRun]_vars

putGrantRulesRoute == "PUT /provider-access/:grantId/rules"
putDefaultRulesRoute == "PUT /providers/:providerId/default-rules"

\* The { rules } a PUT route answers with after setGrantRules or
\* setProviderDefaultRules returned, or its 404 when that returned null.
putResponse(returned, missing) ==
    IF returned = Null THEN errorResponse(missing, 404) ELSE json([rules |-> returned])

\* The handler of PUT /provider-access/:grantId/rules: 401 without a user,
\* the parse error for a body the schema rejects, then setGrantRules.
PutGrantRules ==
    \E user \in Users, valid \in BOOLEAN, id \in GrantIdsCalled :
        IF user = Null
        THEN /\ http' = [route |-> putGrantRulesRoute, user |-> user,
                         response |-> errorResponse("Unauthorized", 401)]
             /\ UNCHANGED <<pureVars, tableVars, chain, action, parameters, result,
                            callVars, crud, evaluations, deployment, snapshots,
                            editor>>
        ELSE IF ~valid
        THEN /\ http' = [route |-> putGrantRulesRoute, user |-> user,
                         params |-> [grantId |-> id],
                         response |-> errorResponse("Invalid request", 400)]
             /\ UNCHANGED <<pureVars, tableVars, chain, action, parameters, result,
                            callVars, crud, evaluations, deployment, snapshots,
                            editor>>
        ELSE /\ SetGrantRules(WrittenArrays)
             /\ crud'.id = id
             /\ http' = [route |-> putGrantRulesRoute, user |-> user,
                         params |-> [grantId |-> id],
                         response |-> putResponse(crud'.returned, "Grant not found")]

\* The handler of PUT /providers/:providerId/default-rules: 401 without a
\* user, 403 for a user who is neither admin nor has access to the provider,
\* the parse error for a body the schema rejects, then
\* setProviderDefaultRules.
PutProviderDefaultRules ==
    \E user \in Users, valid \in BOOLEAN, id \in ProviderIdsCalled :
        IF user = Null
        THEN /\ http' = [route |-> putDefaultRulesRoute, user |-> user,
                         response |-> errorResponse("Unauthorized", 401)]
             /\ UNCHANGED <<pureVars, tableVars, chain, action, parameters, result,
                            callVars, crud, evaluations, deployment, snapshots,
                            editor>>
        ELSE IF ~hasProviderAccess(user, id) /\ ~user.isAdmin
        THEN /\ http' = [route |-> putDefaultRulesRoute, user |-> user,
                         params |-> [providerId |-> id],
                         response |-> errorResponse("Access denied", 403)]
             /\ UNCHANGED <<pureVars, tableVars, chain, action, parameters, result,
                            callVars, crud, evaluations, deployment, snapshots,
                            editor>>
        ELSE IF ~valid
        THEN /\ http' = [route |-> putDefaultRulesRoute, user |-> user,
                         params |-> [providerId |-> id],
                         response |-> errorResponse("Invalid request", 400)]
             /\ UNCHANGED <<pureVars, tableVars, chain, action, parameters, result,
                            callVars, crud, evaluations, deployment, snapshots,
                            editor>>
        ELSE /\ SetProviderDefaultRules(WrittenArrays)
             /\ crud'.id = id
             /\ http' = [route |-> putDefaultRulesRoute, user |-> user,
                         params |-> [providerId |-> id],
                         response |-> putResponse(crud'.returned, "Provider not found")]

\* The two routes that replace stored rules, called in any order (SpecRoutes).
SpecRoutes == Init /\ [][PutGrantRules \/ PutProviderDefaultRules]_vars

-----------------------------------------------------------------------------
(* The rule editor of the UI (part_014)                                    *)

\* String.prototype.trim, over strings whose only white space is the space.
RECURSIVE trimStart(_)
trimStart(s) ==
    IF Len(s) > 0 /\ CharAt(s, 1) = " " THEN trimStart(SubSeq(s, 2, Len(s))) ELSE s

RECURSIVE trimEnd(_)
trimEnd(s) ==
    IF Len(s) > 0 /\ CharAt(s, Len(s)) = " " THEN trimEnd(SubSeq(s, 1, Len(s) - 1)) ELSE s

trim(s) == trimEnd(trimStart(s))

\* String.prototype.split with a separator of one character.
RECURSIVE split(_, _)
split(s, separator) ==
    LET at == {i \in 1..Len(s) : CharAt(s, i) = separator} IN
    IF at = {} THEN <<s>>
    ELSE LET i == CHOOSE k \in at : \A j \in at : k <= j IN
         <<SubSeq(s, 1, i - 1)>> \o split(SubSeq(s, i + 1, Len(s)), separator)

\* c.value.split(",").map((v) => v.trim()).filter(Boolean), as string values.
listOf(text) ==
    LET pieces == split(text, ",")
        trimmed == [i \in 1..Len(pieces) |-> trim(pieces[i])]
        kept == SelectSeq(trimmed, LAMBDA piece : piece # "") IN
    [i \in 1..Len(kept) |-> Str(kept[i])]

\* The row ruleToForm makes of one entry of parameterConstraints: of the
\* sub-tests the constraint carries, the first in the order in, notIn, eq,
\* pattern, startsWith; no row for a constraint with none of them.
rowsOf(param, c) ==
    LET strings(array) == [i \in 1..Len(array) |-> String(array[i])] IN
    IF has(c, "in")
    THEN <<[param |-> param, type |-> "in", value |-> join(strings(c.in), ", ")]>>
    ELSE IF has(c, "notIn")
    THEN <<[param |-> param, type |-> "notIn", value |-> join(strings(c.notIn), ", ")]>>
    ELSE IF has(c, "eq")
    THEN <<[param |-> param, type |-> "eq", value |-> String(c.eq)]>>
    ELSE IF has(c, "pattern") /\ c.pattern # ""
    THEN <<[param |-> param, type |-> "pattern", value |-> c.pattern]>>
    ELSE IF has(c, "startsWith") /\ c.startsWith # ""
    THEN <<[param |-> param, type |-> "startsWith", value |-> c.startsWith]>>
    ELSE <<>>

RECURSIVE rowsFrom(_, _)
rowsFrom(entries, i) ==
    IF i > Len(entries) THEN <<>>
    ELSE rowsOf(entries[i][1], entries[i][2]) \o rowsFrom(entries, i + 1)

ruleToForm(r) ==
    [effect |-> r.effect,
     action |-> IF r.action = Null THEN "" ELSE r.action.s,
     description |-> IF has(r, "description") THEN r.description ELSE "",
     constraints |-> IF has(r, "parameterConstraints")
                     THEN rowsFrom(r.parameterConstraints, 1) ELSE <<>>]

\* parameterConstraints[key] = c on the entries of an object: the entry of
\* the key is replaced where it stands, a new key goes to the end.
assign(entries, key, c) ==
    IF \E i \in 1..Len(entries) : entries[i][1] = key
    THEN [i \in 1..Len(entries) |-> IF entries[i][1] = key THEN <<key, c>> ELSE entries[i]]
    ELSE Append(entries, <<key, c>>)

\* The constraint formToRule makes of one row.
constraintOf(row) ==
    IF row.type \in {"in", "notIn"} THEN row.type :> listOf(row.value)
    ELSE IF row.type = "eq" THEN [eq |-> Str(trim(row.value))]
    ELSE row.type :> trim(row.value)

RECURSIVE entriesFrom(_, _, _)
entriesFrom(rows, i, entries) ==
    IF i > Len(rows) THEN entries
    ELSE IF trim(rows[i].param) = "" THEN entriesFrom(rows, i + 1, entries)
    ELSE entriesFrom(rows, i + 1, assign(entries, trim(rows[i].param), constraintOf(rows[i])))

formToRule(form) ==
    LET entries == entriesFrom(form.constraints, 1, <<>>) IN
    [effect |-> form.effect,
     action |-> IF trim(form.action) = "" THEN Null ELSE Str(trim(form.action))]
    @@ (IF trim(form.description) # ""
        THEN [description |-> trim(form.description)] ELSE EmptyObject)
    @@ (IF Len(form.constraints) > 0 /\ Len(entries) > 0
        THEN [parameterConstraints |-> entries] ELSE EmptyObject)

\* Rules the editor is opened on: without constraints, with one sub-test on
\* one parameter, with several sub-tests on it, and with values that are not
\* strings.
EditedConstraints ==
    {[in |-> <<Str("prod"), Str("dev")>>],
     [notIn |-> <<Str("prod")>>],
     [eq |-> Str("prod")],
     [pattern |-> "^p"],
     [startsWith |-> "pr"],
     [in |-> <<Str("prod"), Str("dev")>>, pattern |-> "^d"],
     [notIn |-> <<Str("dev")>>, startsWith |-> "pr"],
     [eq |-> Num(1)],
     [in |-> <<Num(1), Bool(TRUE)>>],
     [notIn |-> <<Num(1)>>],
     EmptyObject}

EditedRules ==
    {[effect |-> e, action |-> a] : e \in {"ALLOW", "DENY"}, a \in {Null, Str("deleteRepo")}}
    \cup {[effect |-> "DENY", action |-> Str("deleteRepo"), description |-> "audited"]}
    \cup {[effect |-> "DENY", action |-> Null, parameterConstraints |-> <<<<"repo", c>>>>] :
             c \in EditedConstraints}
    \cup {[effect |-> "DENY", action |-> Null,
           parameterConstraints |-> <<<<"repo", [eq |-> Str("prod")]>>,
                                      <<"channel", [pattern |-> "^o"]>>>>]}

MaxLocalRules == 2

\* The editor shows the saved rules; no dialog is open.
InitEditor ==
    /\ \E n \in 1..MaxLocalRules : \E rules \in [1..n -> EditedRules] :
          editor = [localRules |-> rules, editingIndex |-> Null,
                    editingForm |-> Undefined, editDialogOpen |-> FALSE]
    /\ workflows = EmptyObject /\ workflowFolders = EmptyObject
    /\ providerAccess = EmptyObject /\ providers = EmptyObject
    /\ pc = "editor"
    /\ chain = NotCalled /\ action = NotCalled /\ parameters = NotCalled
    /\ result = NotCalled /\ workflowId = NotCalled /\ providerId = NotCalled
    /\ currentFolderId = NotCalled /\ grant = NotCalled /\ defaultRules = NotCalled
    /\ crud = NotCalled
    /\ evaluations = NotCalled /\ deployment = NotCalled /\ snapshots = NotCalled
    /\ http = NotCalled
    /\ constraint = NotCalled /\ value = NotCalled /\ constraintResult = NotCalled
    /\ rule = NotCalled /\ actionGate = NotCalled /\ paramGate = NotCalled

\* handleEdit(index): the dialog opens on the form of the rule.
HandleEdit ==
    /\ pc = "editor"
    /\ ~editor.editDialogOpen
    /\ \E index \in 1..Len(editor.localRules) :
          editor' = [editor EXCEPT !.editingIndex = Num(index),
                                   !.editingForm = ruleToForm(editor.localRules[index]),
                                   !.editDialogOpen = TRUE]
    /\ UNCHANGED <<pureVars, tableVars, chain, action, parameters, result, callVars,
                   crud, evaluations, deployment, snapshots, http>>

\* The dialog is submitted with the form as it was opened: handleDialogSubmit
\* puts formToRule of it in the place of the rule, and the dialog closes.
HandleDialogSubmit ==
    /\ pc = "editor"
    /\ editor.editDialogOpen
    /\ editor.editingIndex # Null
    /\ editor' = [editor EXCEPT
                    !.localRules = [i \in 1..Len(editor.localRules) |->
                                       IF i = editor.editingIndex.n
                                       THEN formToRule(editor.editingForm)
                                       ELSE editor.localRules[i]],
                    !.editDialogOpen = FALSE]
    /\ UNCHANGED <<pureVars, tableVars, chain, action, parameters, result, callVars,
                   crud, evaluations, deployment, snapshots, http>>

SpecEditor == InitEditor /\ [][HandleEdit \/ HandleDialogSubmit]_vars

-----------------------------------------------------------------------------
(* Properties of the constraint matcher (SpecConstraint)                   *)

elements(array) == {array[i] : i \in 1..Len(array)}

\* Every sub-test the constraint carries passes for the value.
everySubTestPasses(c, v) ==
    /\ has(c, "in") => v \in elements(c.in)
    /\ has(c, "notIn") => v \notin elements(c.notIn)
    /\ has(c, "eq") => v = c.eq
    /\ has(c, "pattern") => RegExpCompiles(c.pattern) /\ RegExpTest(c.pattern, String(v))
    /\ has(c, "startsWith") => startsWith(String(v), c.startsWith)

\* C10: checkConstraint returns true if and only if every sub-test present on
\* the constraint passes for the value; a constraint with no sub-test passes
\* for every value, and in: ["general", "random"] alone passes exactly for the
\* strings "general" and "random".
C10_ConstraintComposition ==
    constraintResult # NotCalled =>
        /\ (constraintResult = Return(TRUE)) <=> everySubTestPasses(constraint, value)
        /\ DOMAIN constraint = {} => constraintResult = Return(TRUE)
        /\ constraint = [in |-> <<Str("general"), Str("random")>>] =>
              ((constraintResult = Return(TRUE)) <=> value \in {Str("general"), Str("random")})

\* A constraint combining in, pattern and startsWith has passed for "general".
C10_Witness ==
    /\ constraintResult = Return(TRUE)
    /\ {"in", "pattern", "startsWith"} \subseteq DOMAIN constraint
    /\ value = Str("general")

\* The scalars of the array that have the JavaScript type of the value.
sameTypeElements(array, v) == {e \in elements(array) : e.t = v.t}

\* The constraint without one of its sub-tests.
without(c, field) == [f \in DOMAIN c \ {field} |-> c[f]]

\* C11: eq, in and notIn compare without coercion. A value whose type differs
\* from that of eq fails the constraint; so does a value whose type no element
\* of in has; a notIn none of whose elements has the value's type excludes
\* nothing, the outcome being that of the constraint without it. Number 1 fails
\* eq "1" and in ["1"], and passes notIn ["1"].
C11_NoCoercion ==
    constraintResult # NotCalled =>
        /\ (has(constraint, "eq") /\ constraint.eq.t # value.t) =>
              constraintResult = Return(FALSE)
        /\ (has(constraint, "in") /\ sameTypeElements(constraint.in, value) = {}) =>
              constraintResult = Return(FALSE)
        /\ (has(constraint, "notIn") /\ sameTypeElements(constraint.notIn, value) = {}) =>
              constraintResult = checkConstraint(without(constraint, "notIn"), value)
        /\ (value = Num(1) /\ constraint \in {[eq |-> Str("1")], [in |-> <<Str("1")>>]}) =>
              constraintResult = Return(FALSE)
        /\ (value = Num(1) /\ constraint = [notIn |-> <<Str("1")>>]) =>
              constraintResult = Return(TRUE)
        /\ (value = Str("1") /\ constraint \in {[eq |-> Num(1)], [in |-> <<Num(1), Bool(TRUE)>>]}) =>
              constraintResult = Return(FALSE)

\* Number 1 has failed eq "1".
C11_Witness ==
    /\ constraintResult = Return(FALSE)
    /\ constraint = [eq |-> Str("1")]
    /\ value = Num(1)

\* The string sub-tests of the constraint, pattern and startsWith, alone.
stringSubTests(c) == [f \in DOMAIN c \cap {"pattern", "startsWith"} |-> c[f]]

\* C12: pattern and startsWith test the string form of the value: a constraint
\* carrying only these sub-tests gives a number, a boolean or null the outcome
\* it gives the string that String(value) is. Number 12 passes startsWith "1"
\* and pattern "1", null passes startsWith "nu" and pattern "l$", true and 0
\* fail startsWith "1".
C12_StringForm ==
    constraintResult # NotCalled =>
        /\ constraint = stringSubTests(constraint) =>
              constraintResult = checkConstraint(constraint, Str(String(value)))
        /\ (value = Num(12) /\ constraint \in {[startsWith |-> "1"], [pattern |-> "1"],
                                                 [pattern |-> "1", startsWith |-> "1"]}) =>
              constraintResult = Return(TRUE)
        /\ (value = Null /\ constraint \in {[startsWith |-> "nu"], [pattern |-> "l$"]}) =>
              constraintResult = Return(TRUE)
        /\ (value \in {Bool(TRUE), Num(0), Null} /\ constraint = [startsWith |-> "1"]) =>
              constraintResult = Return(FALSE)

\* A present null has passed startsWith "nu".
C12_Witness ==
    /\ constraintResult = Return(TRUE)
    /\ constraint = [startsWith |-> "nu"]
    /\ value = Null

-----------------------------------------------------------------------------
(* Properties of the rule gates (SpecRule)                                 *)

\* C6: a rule with action null passes the action gate for every action name,
\* the empty string included; a rule with a string action passes exactly when
\* the action name is that same string (case-sensitive, no prefix matching).
C6_ActionGate ==
    actionGate # NotCalled =>
        /\ rule.action = Null => actionGate = Return(TRUE)
        /\ rule.action # Null => actionGate = Return(rule.action.s = action)
        /\ (rule.action = Str("send") /\ action \in {"Send", "sen", ""}) =>
              actionGate = Return(FALSE)
        /\ (rule.action = Str("") /\ action # "") => actionGate = Return(FALSE)

\* The wildcard rule has passed the gate for the empty action name.
C6_Witness ==
    /\ actionGate = Return(TRUE)
    /\ rule.action = Null
    /\ action = ""

entriesOf(r) == IF has(r, "parameterConstraints") THEN r.parameterConstraints ELSE <<>>

\* The rule lists a parameter whose value in the bag is undefined.
listsMissingParameter(r, bag) ==
    \E i \in 1..Len(entriesOf(r)) : lookup(bag, entriesOf(r)[i][1]) = Undefined

\* Entry j is reached with every entry before it present and passing, and its
\* own present value reaches a pattern that does not compile.
reachesMalformedPattern(r, bag) ==
    \E j \in 1..Len(entriesOf(r)) :
        /\ \A m \in 1..j :  lookup(bag, entriesOf(r)[m][1]) # Undefined
        /\ \A m \in 1..(j - 1) :
              checkConstraint(entriesOf(r)[m][2], lookup(bag, entriesOf(r)[m][1])) = Return(TRUE)
        /\ checkConstraint(entriesOf(r)[j][2], lookup(bag, entriesOf(r)[j][1])) = Throw

\* C4 as stated: a rule that lists a parameter missing from the bag does not
\* match, the parameter gate returning false so that evaluation falls through.
C4_Original ==
    (paramGate # NotCalled /\ listsMissingParameter(rule, parameters)) =>
        paramGate = Return(FALSE)

\* C4 (amended): a rule that lists a missing parameter never passes the
\* parameter gate: the gate returns false, except that it throws when an entry
\* listed before the first missing one reaches a malformed pattern. Only
\* undefined is missing: with a single entry whose parameter holds null,
\* false, 0 or "" the gate is the outcome of checkConstraint on that value.
C4_MissingParameterFailsRule ==
    paramGate # NotCalled =>
        /\ listsMissingParameter(rule, parameters) =>
              paramGate = (IF reachesMalformedPattern(rule, parameters)
                           THEN Throw ELSE Return(FALSE))
        /\ (Len(entriesOf(rule)) = 1 /\ ~listsMissingParameter(rule, parameters)) =>
              paramGate = checkConstraint(entriesOf(rule)[1][2],
                                          lookup(parameters, entriesOf(rule)[1][1]))
        /\ (entriesOf(rule) = <<<<"channel", EmptyObject>>>>
              /\ lookup(parameters, "channel") \in {Null, Bool(FALSE), Num(0), Str("")}) =>
              paramGate = Return(TRUE)

\* A DENY rule whose only constraint has no sub-test has failed the gate on a
\* bag without the parameter.
C4_Witness ==
    /\ paramGate = Return(FALSE)
    /\ rule.effect = "DENY"
    /\ entriesOf(rule) = <<<<"channel", EmptyObject>>>>
    /\ ~has(parameters, "channel")

-----------------------------------------------------------------------------
(* Properties of the chain evaluator (SpecEval)                            *)

\* Both gates of the rule pass for the call.
gatesPass(r, a, bag) == ruleMatchesAction(r, a) /\ ruleMatchesParams(r, bag) = Return(TRUE)

\* The action gate passes and the parameter gate throws.
gateThrows(r, a, bag) == ruleMatchesAction(r, a) /\ ruleMatchesParams(r, bag) = Throw

decisionOf(r) == IF r.effect = "ALLOW" THEN "ALLOWED" ELSE "DENIED"

\* Rule i is the lowest-index rule of the chain whose gates both pass.
firstPassing(i) ==
    /\ gatesPass(chain.rules[i], action, parameters)
    /\ \A j \in 1..(i - 1) : ~gatesPass(chain.rules[j], action, parameters)

noRuleMatches == \A i \in 1..Len(chain.rules) : ~gatesPass(chain.rules[i], action, parameters)

someRuleThrows == \E i \in 1..Len(chain.rules) : gateThrows(chain.rules[i], action, parameters)

returned == result # NotCalled /\ result.kind = "return"

\* C1 as stated: for every chain the call returns the decision of the
\* lowest-index rule whose gates both pass, with matchedRule that rule.
C1_Original ==
    result # NotCalled =>
        \A i \in 1..Len(chain.rules) : firstPassing(i) =>
            /\ result.kind = "return"
            /\ result.value.decision = decisionOf(chain.rules[i])
            /\ has(result.value, "matchedRule")
            /\ result.value.matchedRule = chain.rules[i]

\* C1 (amended): the call returns the decision of the lowest-index rule whose
\* gates both pass, with matchedRule that rule, unless the parameter gate of a
\* rule before it throws, in which case the call throws; the rules after it do
\* not influence the outcome (the chain cut after it evaluates the same).
C1_FirstMatchWins ==
    result # NotCalled =>
        \A i \in 1..Len(chain.rules) : firstPassing(i) =>
            /\ IF \E j \in 1..(i - 1) : gateThrows(chain.rules[j], action, parameters)
               THEN result = Throw
               ELSE /\ result.kind = "return"
                    /\ result.value.decision = decisionOf(chain.rules[i])
                    /\ has(result.value, "matchedRule")
                    /\ result.value.matchedRule = chain.rules[i]
            /\ result = evaluateRuleChain([rules |-> SubSeq(chain.rules, 1, i)],
                                          action, parameters)

\* The chain [DENY *, ALLOW send] evaluated on send has returned DENIED.
C1_Witness ==
    /\ returned
    /\ Len(chain.rules) = 2
    /\ chain.rules[1].effect = "DENY" /\ chain.rules[1].action = Null
    /\ ~has(chain.rules[1], "parameterConstraints")
    /\ chain.rules[2].effect = "ALLOW" /\ chain.rules[2].action = Str("send")
    /\ ~has(chain.rules[2], "parameterConstraints")
    /\ action = "send"
    /\ result.value.decision = "DENIED"

\* C2 as stated: whenever no rule matches, the call returns ALLOWED with the
\* implicit-allow reason and no matchedRule.
C2_Original ==
    (result # NotCalled /\ noRuleMatches) =>
        result = Return([decision |-> "ALLOWED",
                         reason |-> "No matching rule (implicit allow)"])

\* C2 (amended): whenever no rule matches, the call returns ALLOWED with reason
\* "No matching rule (implicit allow)" and no matchedRule, unless the parameter
\* gate of some rule throws, in which case the call throws.
C2_ImplicitAllow ==
    (result # NotCalled /\ noRuleMatches) =>
        result = (IF someRuleThrows
                  THEN Throw
                  ELSE Return([decision |-> "ALLOWED",
                               reason |-> "No matching rule (implicit allow)"]))

\* A chain of two rules, neither matching, has been evaluated to implicit allow.
C2_Witness ==
    /\ returned
    /\ Len(chain.rules) = 2
    /\ noRuleMatches
    /\ result.value.decision = "ALLOWED"
    /\ ~has(result.value, "matchedRule")

\* C3: in every returned result matchedRule is absent exactly when no rule of
\* the chain matched; a DENIED result carries a matchedRule that is a rule of
\* the chain, has effect DENY and matches the call.
C3_MatchedRuleAbsentIffNoMatch ==
    returned =>
        /\ ~has(result.value, "matchedRule") <=> noRuleMatches
        /\ result.value.decision = "DENIED" =>
              /\ has(result.value, "matchedRule")
              /\ \E i \in 1..Len(chain.rules) : chain.rules[i] = result.value.matchedRule
              /\ result.value.matchedRule.effect = "DENY"
              /\ gatesPass(result.value.matchedRule, action, parameters)
        /\ noRuleMatches => result.value.decision = "ALLOWED"

\* A call has returned DENIED by a constrained DENY rule behind a rule that
\* did not match.
C3_Witness ==
    /\ returned
    /\ Len(chain.rules) = 2
    /\ result.value.decision = "DENIED"
    /\ result.value.matchedRule = chain.rules[2]
    /\ has(chain.rules[2], "parameterConstraints")
    /\ ~gatesPass(chain.rules[1], action, parameters)

\* A DENY rule that lists a parameter missing from the call.
escapableDeny(r, bag) == r.effect = "DENY" /\ listsMissingParameter(r, bag)

everyActionMatchIsEscapableDeny ==
    \A i \in 1..Len(chain.rules) :
        ruleMatchesAction(chain.rules[i], action) => escapableDeny(chain.rules[i], parameters)

\* C5 as stated: when every rule whose action gate passes is a DENY rule that
\* constrains a parameter absent from the call, the call returns ALLOWED by
\* implicit allow.
C5_Original ==
    (result # NotCalled /\ everyActionMatchIsEscapableDeny) =>
        /\ result.kind = "return"
        /\ result.value.decision = "ALLOWED"
        /\ ~has(result.value, "matchedRule")

\* C5 (amended): in such a chain the call is never DENIED: it returns ALLOWED by
\* implicit allow, unless one of those rules lists, before its first absent
\* parameter, a present parameter whose constraint reaches a malformed pattern,
\* in which case the call throws.
C5_DenyEscapedByOmission ==
    (result # NotCalled /\ everyActionMatchIsEscapableDeny) =>
        IF \E i \in 1..Len(chain.rules) :
               /\ ruleMatchesAction(chain.rules[i], action)
               /\ reachesMalformedPattern(chain.rules[i], parameters)
        THEN result = Throw
        ELSE /\ result.kind = "return"
             /\ result.value.decision = "ALLOWED"
             /\ ~has(result.value, "matchedRule")

\* A DENY send rule constraining channel has been escaped by a send call that
\* omits channel.
C5_Witness ==
    /\ returned
    /\ Len(chain.rules) >= 1
    /\ everyActionMatchIsEscapableDeny
    /\ \E i \in 1..Len(chain.rules) :
          /\ chain.rules[i].action = Str("send")
          /\ ruleMatchesAction(chain.rules[i], action)
    /\ ~has(parameters, "channel")
    /\ result.value.decision = "ALLOWED"

\* The value gets as far as the pattern sub-test of the constraint: in, notIn
\* and eq, tested before it, do not fail.
reachesPatternSubTest(c, v) ==
    /\ has(c, "pattern")
    /\ has(c, "in") => v \in elements(c.in)
    /\ has(c, "notIn") => v \notin elements(c.notIn)
    /\ has(c, "eq") => v = c.eq

\* The parameter gate of the rule gets as far as a pattern that does not
\* compile: the entries before it are present and pass.
ruleReachesMalformed(r, bag) ==
    \E j \in 1..Len(entriesOf(r)) :
        /\ \A m \in 1..j : lookup(bag, entriesOf(r)[m][1]) # Undefined
        /\ \A m \in 1..(j - 1) :
              checkConstraint(entriesOf(r)[m][2], lookup(bag, entriesOf(r)[m][1])) = Return(TRUE)
        /\ reachesPatternSubTest(entriesOf(r)[j][2], lookup(bag, entriesOf(r)[j][1]))
        /\ ~RegExpCompiles(entriesOf(r)[j][2].pattern)

\* The evaluation gets as far as such a pattern: no rule before that one matches.
chainReachesMalformed ==
    \E i \in 1..Len(chain.rules) :
        /\ ruleMatchesAction(chain.rules[i], action)
        /\ ruleReachesMalformed(chain.rules[i], parameters)
        /\ \A k \in 1..(i - 1) : ~gatesPass(chain.rules[k], action, parameters)

\* C13: when the evaluation of a chain reaches the pattern sub-test of a
\* constraint whose pattern does not compile, evaluateRuleChain throws: it
\* returns no decision and does not go on to the next rule. It throws in no
\* other case.
C13_MalformedPatternThrows ==
    result # NotCalled => (chainReachesMalformed <=> result = Throw)

\* A call has thrown on the malformed pattern of the first rule although the
\* second rule matches the call.
C13_Witness ==
    /\ result = Throw
    /\ Len(chain.rules) = 2
    /\ ruleMatchesAction(chain.rules[1], action)
    /\ ruleReachesMalformed(chain.rules[1], parameters)
    /\ gatesPass(chain.rules[2], action, parameters)

\* The chains that differ from ch in nothing but the source tags of their rules.
retaggings(ch) ==
    {[rules |-> [i \in 1..Len(ch.rules) |-> withSource(ch.rules[i], tags[i])]] :
        tags \in [1..Len(ch.rules) -> {"grant", "default"}]}

\* The index of the first rule of ch whose gates both pass for the call, 0 when
\* there is none.
firstPassingIn(ch) ==
    LET passing == {i \in 1..Len(ch.rules) : gatesPass(ch.rules[i], action, parameters)} IN
    IF passing = {} THEN 0 ELSE CHOOSE i \in passing : \A j \in passing : i <= j

\* C19: a chain that differs from the evaluated one only in source tags
\* evaluates to the same outcome: it throws exactly when this one does, and
\* otherwise gives the same decision and matches the rule at the same index;
\* the reason is the same too when the matched rule carries a description or
\* the same tag.
C19_SourceIsProvenanceOnly ==
    result # NotCalled =>
        \A other \in retaggings(chain) :
            LET again == evaluateRuleChain(other, action, parameters)
                i == firstPassingIn(chain)
            IN  /\ again.kind = result.kind
                /\ firstPassingIn(other) = i
                /\ result.kind = "return" =>
                      /\ again.value.decision = result.value.decision
                      /\ has(again.value, "matchedRule") <=> i # 0
                      /\ has(result.value, "matchedRule") <=> i # 0
                      /\ i # 0 =>
                            /\ result.value.matchedRule = chain.rules[i]
                            /\ again.value.matchedRule = other.rules[i]
                            /\ (has(chain.rules[i], "description")
                                   \/ other.rules[i].source = chain.rules[i].source) =>
                                  again.value.reason = result.value.reason
                      /\ i = 0 => again = result

\* An undescribed default rule behind a grant rule has decided, so that the
\* retagged chains give the same decision with another reason.
C19_Witness ==
    /\ returned
    /\ Len(chain.rules) = 2
    /\ chain.rules[1].source = "grant" /\ chain.rules[2].source = "default"
    /\ has(result.value, "matchedRule")
    /\ result.value.matchedRule = chain.rules[2]
    /\ ~has(chain.rules[2], "description")
    /\ \E other \in retaggings(chain) :
          evaluateRuleChain(other, action, parameters).value.reason # result.value.reason

-----------------------------------------------------------------------------
(* Properties of repeated evaluations (SpecRepeat)                         *)

sameCall(e, f) ==
    e.chain = f.chain /\ e.action = f.action /\ e.parameters = f.parameters

-----------------------------------------------------------------------------
(* Properties of the policy service over quiescent tables (SpecBuild)      *)

\* Some provider_access row grants the principal access to the provider.
hasGrantOn(principleType, principleId, provider) ==
    \E id \in DOMAIN providerAccess :
        providerAccess[id] = grantRow(principleType, principleId, provider,
                                      providerAccess[id].policyRules)

\* The folder above a folder or workflow row, "" when there is none.
folderAbove(table, id) ==
    IF id \in DOMAIN table /\ table[id].parentFolderId # Null
    THEN table[id].parentFolderId.s
    ELSE ""

\* The workflow's ancestor folders, nearest first (at most n of them).
RECURSIVE foldersFrom(_, _)
foldersFrom(folder, n) ==
    IF folder = "" \/ n = 0 THEN <<>>
    ELSE <<folder>> \o foldersFrom(folderAbove(workflowFolders, folder), n - 1)

ancestorPath(w) == foldersFrom(folderAbove(workflows, w), Cardinality(FolderIds))

\* The positions on the ancestor path whose folder has a grant on the provider.
grantedAncestors(w, provider) ==
    {i \in 1..Len(ancestorPath(w)) : hasGrantOn("FOLDER", ancestorPath(w)[i], provider)}

nearest(positions) == CHOOSE i \in positions : \A j \in positions : i <= j

findApplicableGrantReturned == pc \in {"defaults", "done"}

\* C9: findApplicableGrant returns a direct WORKFLOW grant on the provider if
\* one exists; otherwise the FOLDER grant of the nearest folder on the
\* workflow's ancestor path that has a grant on the provider; otherwise null.
\* The grant it returns carries the id and the stored rules of that row.
C9_GrantResolutionSpecificity ==
    findApplicableGrantReturned =>
        LET near == grantedAncestors(workflowId, providerId) IN
        IF hasGrantOn("WORKFLOW", workflowId, providerId)
        THEN /\ grant # Null
             /\ providerAccess[grant.id] =
                   grantRow("WORKFLOW", workflowId, providerId, grant.policyRules)
        ELSE IF near # {}
        THEN /\ grant # Null
             /\ providerAccess[grant.id] =
                   grantRow("FOLDER", ancestorPath(workflowId)[nearest(near)], providerId,
                            grant.policyRules)
        ELSE grant = Null

\* The grant of the second folder up has been returned although the third
\* folder up has a grant too, the workflow and its own folder having none.
C9_Witness ==
    /\ findApplicableGrantReturned
    /\ Len(ancestorPath(workflowId)) = 3
    /\ grantedAncestors(workflowId, providerId) = {2, 3}
    /\ ~hasGrantOn("WORKFLOW", workflowId, providerId)
    /\ grant # Null
    /\ providerAccess[grant.id].principleId = ancestorPath(workflowId)[2]

\* The rule array of the grant findApplicableGrant returned, as stored.
grantArray ==
    IF grant = Null \/ providerAccess[grant.id].policyRules = Null
    THEN <<>>
    ELSE providerAccess[grant.id].policyRules.items

\* The default rule array stored on the provider.
defaultArray ==
    IF providerId \notin DOMAIN providers \/ providers[providerId].defaultPolicyRules = Null
    THEN <<>>
    ELSE providers[providerId].defaultPolicyRules.items

withoutSource(r) == [f \in DOMAIN r \ {"source"} |-> r[f]]

\* C7: the chain buildRuleChain returns is the stored rule array of the
\* applicable grant in stored order, each rule tagged "grant", followed by the
\* provider's stored default array in stored order, each rule tagged
\* "default": its length is |G| + |D| and nothing is dropped or reordered.
C7_PrecedenceOrdering ==
    pc = "done" =>
        /\ Len(chain.rules) = Len(grantArray) + Len(defaultArray)
        /\ \A i \in 1..Len(grantArray) :
              /\ chain.rules[i].source = "grant"
              /\ withoutSource(chain.rules[i]) = grantArray[i]
        /\ \A i \in 1..Len(defaultArray) :
              /\ chain.rules[Len(grantArray) + i].source = "default"
              /\ withoutSource(chain.rules[Len(grantArray) + i]) = defaultArray[i]

\* A chain has been built from two different grant rules and two different
\* default rules.
C7_Witness ==
    /\ pc = "done"
    /\ Len(grantArray) = 2 /\ grantArray[1] # grantArray[2]
    /\ Len(defaultArray) = 2 /\ defaultArray[1] # defaultArray[2]
    /\ grantArray # defaultArray

grantRuleMatches(i) == gatesPass(withSource(grantArray[i], "grant"), action, parameters)
grantRuleThrows(i) == gateThrows(withSource(grantArray[i], "grant"), action, parameters)
defaultRuleMatches(i) == gatesPass(withSource(defaultArray[i], "default"), action, parameters)
defaultRuleThrows(i) == gateThrows(withSource(defaultArray[i], "default"), action, parameters)

someGrantRuleMatches == \E i \in 1..Len(grantArray) : grantRuleMatches(i)

firstMatchingGrantRule == nearest({i \in 1..Len(grantArray) : grantRuleMatches(i)})

decidedByGrant(i) ==
    /\ result.kind = "return"
    /\ has(result.value, "matchedRule")
    /\ result.value.matchedRule = withSource(grantArray[i], "grant")
    /\ result.value.decision = decisionOf(grantArray[i])

\* C8 as stated: whenever a rule of the applicable grant matches the call, the
\* result's matchedRule has source "grant" and the decision is the effect of
\* the matching grant rule, whatever the provider defaults contain.
C8_Original ==
    (pc = "done" /\ someGrantRuleMatches) => decidedByGrant(firstMatchingGrantRule)

\* C8 (amended): whenever a rule of the applicable grant matches the call, the
\* first such rule decides, with source "grant", unless the parameter gate of
\* a grant rule before it throws, in which case evaluateAction throws; a
\* default rule decides only when no grant rule matches. Grant [DENY
\* deleteRepo] with defaults [ALLOW *]: deleteRepo is DENIED by the grant rule,
\* listRepos is ALLOWED by the default rule.
C8_GrantOverridesDefaults ==
    pc = "done" =>
        /\ someGrantRuleMatches =>
              IF \E j \in 1..(firstMatchingGrantRule - 1) : grantRuleThrows(j)
              THEN result = Throw
              ELSE decidedByGrant(firstMatchingGrantRule)
        /\ (result.kind = "return" /\ has(result.value, "matchedRule")
              /\ result.value.matchedRule.source = "default") => ~someGrantRuleMatches
        /\ (~someGrantRuleMatches
              /\ (\A j \in 1..Len(grantArray) : ~grantRuleThrows(j))
              /\ (\E i \in 1..Len(defaultArray) :
                    /\ defaultRuleMatches(i)
                    /\ \A j \in 1..(i - 1) : ~defaultRuleThrows(j))) =>
              /\ result.kind = "return"
              /\ has(result.value, "matchedRule")
              /\ result.value.matchedRule.source = "default"
        /\ (grantArray = <<rDeny>> /\ defaultArray = <<rAllow>>) =>
              /\ action = "deleteRepo" => decidedByGrant(1) /\ result.value.decision = "DENIED"
              /\ action = "listRepos" =>
                    /\ result.kind = "return"
                    /\ result.value.decision = "ALLOWED"
                    /\ result.value.matchedRule = withSource(rAllow, "default")

\* Grant [DENY deleteRepo] over defaults [ALLOW *] has denied deleteRepo.
C8_Witness ==
    /\ pc = "done"
    /\ grantArray = <<rDeny>>
    /\ defaultArray = <<rAllow>>
    /\ action = "deleteRepo"
    /\ result.kind = "return"
    /\ result.value.decision = "DENIED"
    /\ result.value.matchedRule.source = "grant"

\* findApplicableGrant returned no grant, or one without rules.
noGrantRules == grant = Null \/ grant.policyRules \in {Null, Arr(<<>>)}

\* The provider evaluated has no row, or a row without default rules.
noDefaultRules ==
    \/ providerId \notin DOMAIN providers
    \/ providers[providerId].defaultPolicyRules \in {Null, Arr(<<>>)}

\* C17: when findApplicableGrant returns null or a grant whose rules are null or
\* empty, the chain is the provider's default rules alone, all tagged
\* "default"; getProviderDefaultRules returns an array in every case, the empty
\* one for a provider without defaults or without a row; and with neither grant
\* rules nor defaults the chain is empty and evaluateAction returns ALLOWED by
\* implicit allow.
C17_MissingRecordsAreNotFailures ==
    pc = "done" =>
        /\ noGrantRules =>
              /\ chain.rules = tagged(defaultArray, "default")
              /\ \A i \in 1..Len(chain.rules) : chain.rules[i].source = "default"
        /\ defaultRules = defaultArray
        /\ noDefaultRules => defaultRules = <<>>
        /\ (noGrantRules /\ noDefaultRules) =>
              /\ chain.rules = <<>>
              /\ result = Return(implicitAllow)

\* A workflow without any grant has been evaluated on a provider without a row
\* and allowed.
C17_Witness ==
    /\ pc = "done"
    /\ grant = Null
    /\ providerId \notin DOMAIN providers
    /\ chain.rules = <<>>
    /\ result = Return(implicitAllow)

-----------------------------------------------------------------------------
(* Properties of evaluations among rule edits (Spec)                        *)

\* The chain buildRuleChain makes of the tables as they are now.
chainOfTables ==
    [rules |-> tagged(grantArray, "grant") \o tagged(defaultArray, "default")]

\* No rules call ran while the evaluateAction call in hand was in flight: the
\* last one, if any, had completed before it started.
startedAfterLastEdit == crud = NotCalled \/ ~crud.during

\* C14: an evaluateAction call that starts after the last setGrantRules or
\* setProviderDefaultRules call has completed builds its chain from the arrays
\* that call left in the tables: the grant part is the array just written when
\* the write was to the applicable grant, the default part is the array just
\* written when the write was to the provider evaluated.
C14_StrongConsistency ==
    (pc = "done" /\ startedAfterLastEdit) =>
        /\ chain = chainOfTables
        /\ (crud # NotCalled /\ crud.fn = "setGrantRules"
              /\ grant # Null /\ grant.id = crud.id) =>
              chain.rules = tagged(crud.rules, "grant") \o tagged(defaultArray, "default")
        /\ (crud # NotCalled /\ crud.fn = "setProviderDefaultRules"
              /\ crud.id = providerId) =>
              chain.rules = tagged(grantArray, "grant") \o tagged(crud.rules, "default")

\* A call that started after [ALLOW *, DENY deleteRepo] was written to the
\* applicable grant has built its chain from that array.
C14_Witness ==
    /\ pc = "done"
    /\ crud # NotCalled /\ ~crud.during
    /\ crud.fn = "setGrantRules"
    /\ crud.rules = <<rAllow, rDeny>>
    /\ grant # Null /\ grant.id = crud.id
    /\ chain.rules[1] = withSource(rAllow, "grant")
    /\ chain.rules[2] = withSource(rDeny, "grant")

-----------------------------------------------------------------------------
(* Properties of the rules CRUD calls (SpecCrud)                           *)

\* The last call is a read that directly follows a write of the same row by
\* the given function, the row existing.
readsBack(getFn, setFn, table) ==
    /\ crud # NotCalled
    /\ crud.fn = getFn
    /\ crud.previous # NotCalled
    /\ crud.previous.fn = setFn
    /\ crud.previous.id = crud.id
    /\ crud.id \in DOMAIN table

\* C15: getGrantRules directly after setGrantRules(id, R) on an existing grant
\* returns R, element by element in the same order, the empty array for the
\* empty R; getProviderDefaultRules directly after setProviderDefaultRules(id,
\* R) on an existing provider does the same.
C15_RoundTrip ==
    /\ readsBack("getGrantRules", "setGrantRules", providerAccess) =>
          crud.returned = Arr(crud.previous.rules)
    /\ readsBack("getProviderDefaultRules", "setProviderDefaultRules", providers) =>
          crud.returned = Arr(crud.previous.rules)

\* [ALLOW *, DENY deleteRepo] has been written to a grant and read back.
C15_Witness ==
    /\ readsBack("getGrantRules", "setGrantRules", providerAccess)
    /\ crud.previous.rules = <<rAllow, rDeny>>
    /\ crud.returned = Arr(<<rAllow, rDeny>>)

\* The last call is a write by the given function to an id without a row.
wroteToMissing(call_, setFn, table) ==
    call_ # NotCalled /\ call_.fn = setFn /\ call_.id \notin DOMAIN table

\* C16: getGrantRules returns null exactly when no grant has the id, and the
\* empty array for a grant whose column holds null (never set, or last set to
\* the empty array); setGrantRules and setProviderDefaultRules on an id without
\* a row return null and leave every table as it was.
C16_NullMeansNotFound ==
    /\ [](crud # NotCalled /\ crud.fn = "getGrantRules" =>
            /\ crud.returned = Null <=> crud.id \notin DOMAIN providerAccess
            /\ (crud.id \in DOMAIN providerAccess
                  /\ providerAccess[crud.id].policyRules = Null) =>
                  crud.returned = Arr(<<>>))
    /\ [][wroteToMissing(crud', "setGrantRules", providerAccess) =>
            crud'.returned = Null /\ tableVars' = tableVars]_vars
    /\ [][wroteToMissing(crud', "setProviderDefaultRules", providers) =>
            crud'.returned = Null /\ tableVars' = tableVars]_vars
    /\ [](crud # NotCalled /\ crud.fn \in {"setGrantRules", "setProviderDefaultRules"} =>
            crud.returned = Null <=>
                crud.id \notin (IF crud.fn = "setGrantRules" THEN DOMAIN providerAccess
                                ELSE DOMAIN providers))

\* A grant last set to the empty array, stored as null, has been read as the
\* empty array.
C16_Witness ==
    /\ readsBack("getGrantRules", "setGrantRules", providerAccess)
    /\ crud.previous.rules = <<>>
    /\ providerAccess[crud.id].policyRules = Null
    /\ crud.returned = Arr(<<>>)

-----------------------------------------------------------------------------
(* Properties of the chains of a deployment (SpecDeploy)                   *)

\* The grant that applies to the workflow on the provider in the tables as
\* they are: the direct grant, else that of the nearest granted ancestor.
applicableGrant(w, provider) ==
    LET direct == grantQuery("WORKFLOW", w, provider)
        near == grantedAncestors(w, provider)
    IN  IF direct # {} THEN grantOf(CHOOSE id \in direct : TRUE)
        ELSE IF near # {}
        THEN grantOf(CHOOSE id \in grantQuery("FOLDER", ancestorPath(w)[nearest(near)],
                                              provider) : TRUE)
        ELSE Null

\* The chain buildRuleChain returns for the workflow and the provider.
chainFor(w, provider) ==
    buildRuleChain(applicableGrant(w, provider), getProviderDefaultRules(provider))

\* The chain the runtime finds under the key, a missing key being no rule.
chainUnder(key) ==
    IF key \in DOMAIN deployment.chains THEN deployment.chains[key] ELSE [rules |-> <<>>]

\* C20: the map buildRuleChainsForDeployment returns has the key
\* "<providerType>:<codeAlias>" exactly for the mapped providers whose chain has
\* a rule, holds no empty chain, and for every mapped provider, action and bag
\* the chain under the key evaluates as the chain buildRuleChain returns.
C20_OmittedChainsChangeNothing ==
    pc = "returned" =>
        LET m == deployment.providerMappings IN
        /\ DOMAIN deployment.chains =
              {keyOf(m[i]) : i \in {j \in 1..Len(m) :
                                       Len(chainFor(workflowId, m[j][3]).rules) > 0}}
        /\ \A key \in DOMAIN deployment.chains : Len(deployment.chains[key].rules) > 0
        /\ \A i \in 1..Len(m), a \in ServiceActionNames, bag \in ServiceBags :
              evaluateRuleChain(chainUnder(keyOf(m[i])), a, bag)
                  = evaluateRuleChain(chainFor(workflowId, m[i][3]), a, bag)
        /\ (m = <<<<"slack", "ops:eu", "p2">>>> /\ workflowId = "w1") =>
              deployment.chains = ("slack:ops:eu" :> [rules |-> <<withSource(rDenyAll, "grant")>>])

\* Of two mapped providers one has a chain that denies and is kept, the other
\* an empty chain that is left out.
C20_Witness ==
    /\ pc = "returned"
    /\ Len(deployment.providerMappings) = 2
    /\ Cardinality(DOMAIN deployment.chains) = 1
    /\ \E i \in 1..2 :
          /\ keyOf(deployment.providerMappings[i]) \notin DOMAIN deployment.chains
          /\ chainFor(workflowId, deployment.providerMappings[i][3]).rules = <<>>
    /\ \E key \in DOMAIN deployment.chains :
          evaluateRuleChain(deployment.chains[key], "deleteRepo", EmptyObject).value.decision
              = "DENIED"

-----------------------------------------------------------------------------
(* Reason text of a matching rule (SpecEval)                               *)

\* The text synthesized from the effect, the action ("*" for null) and the source.
synthesized(effect, actionDesc, source) == effect \o " " \o actionDesc \o " (" \o source \o ")"

\* C21: when a rule matches, the reason of the result is the description of
\* the matched rule if it has one (an empty one included), and otherwise
\* "<EFFECT> <action-or-*> (<source>)" built from the effect, the action and
\* the source of the matched rule; the matched rule is the first passing one.
C21_ReasonText ==
    (returned /\ has(result.value, "matchedRule")) =>
        LET m == result.value.matchedRule IN
        /\ \E i \in 1..Len(chain.rules) : firstPassing(i) /\ chain.rules[i] = m
        /\ "description" \in DOMAIN m => result.value.reason = m.description
        /\ "description" \notin DOMAIN m =>
               \/ m.action = Null
                  /\ result.value.reason = synthesized(m.effect, "*", m.source)
               \/ m.action # Null
                  /\ result.value.reason = synthesized(m.effect, m.action.s, m.source)

\* A described rule that does not match "list" is passed over and the
\* wildcard DENY of the defaults gives the synthesized reason.
C21_Witness ==
    /\ returned
    /\ action = "list"
    /\ Len(chain.rules) = 2
    /\ has(chain.rules[1], "description") /\ chain.rules[1].action = Str("send")
    /\ has(result.value, "matchedRule")
    /\ result.value.matchedRule = chain.rules[2]
    /\ result.value.reason = "DENY * (default)"

-----------------------------------------------------------------------------
(* Termination of the ancestor walk (SpecWalk)                             *)

inFindApplicableGrant == pc \in {"direct", "workflow", "folderGrant", "folderParent"}

\* The folders reached from folder f by following stored parents, f included.
RECURSIVE reachedFrom(_, _)
reachedFrom(f, n) ==
    IF n = 0 THEN {f}
    ELSE LET parent == parentFolderOf(workflowFolders, f) IN
         IF parent \in {Undefined, Null} THEN {f}
         ELSE {f} \cup reachedFrom(parent.s, n - 1)

\* Folder f lies on a parent cycle.
onCycle(f) ==
    LET parent == parentFolderOf(workflowFolders, f) IN
    /\ parent \notin {Undefined, Null}
    /\ f \in reachedFrom(parent.s, Cardinality(FolderIds))

\* C22: findApplicableGrant terminates for every stored workflow and folder
\* table, a parent cycle included: a call that has started returns (its
\* caller goes on to the default rules) in the end.
C22_WalkTerminates == inFindApplicableGrant ~> (pc = "defaults")

\* The walk stands at a folder of a parent cycle none of whose folders has a
\* grant on the provider: from here on it only goes round.
C22_Witness ==
    /\ pc = "folderParent"
    /\ onCycle(currentFolderId.s)
    /\ \A f \in reachedFrom(currentFolderId.s, Cardinality(FolderIds)) :
          grantQuery("FOLDER", f, providerId) = {}

-----------------------------------------------------------------------------
(* Order of the constraint entries (SpecRule)                              *)

\* The orders in which n entries can be listed.
orders(n) == {p \in [1..n -> 1..n] : \A i, j \in 1..n : i # j => p[i] # p[j]}

\* The rule with its entries listed in order p.
reordered(r, p) ==
    IF ~has(r, "parameterConstraints") THEN r
    ELSE [r EXCEPT !.parameterConstraints =
             [i \in 1..Len(r.parameterConstraints) |-> r.parameterConstraints[p[i]]]]

\* Some entry, taken alone, throws: its parameter is present and its
\* constraint reaches a malformed pattern on the value.
someEntryThrows(r, bag) ==
    \E j \in 1..Len(entriesOf(r)) :
        /\ lookup(bag, entriesOf(r)[j][1]) # Undefined
        /\ checkConstraint(entriesOf(r)[j][2], lookup(bag, entriesOf(r)[j][1])) = Throw

\* C23 as stated: the parameter gate gives the same outcome (match, no match
\* or error) for every order of the rule's entries.
C23_Original ==
    paramGate # NotCalled =>
        \A p \in orders(Len(entriesOf(rule))) :
            ruleMatchesParams(reordered(rule, p), parameters) = paramGate

\* C23 (amended): two orders of the entries never differ on match against no
\* match: a match in one order is a match in every order, and two orders that
\* differ give an error in one and no match in the other; when no entry taken
\* alone throws, every order gives the same outcome.
C23_EntryOrder ==
    paramGate # NotCalled =>
        \A p \in orders(Len(entriesOf(rule))) :
            LET other == ruleMatchesParams(reordered(rule, p), parameters) IN
            /\ paramGate = Return(TRUE) => other = Return(TRUE)
            /\ other # paramGate => {other, paramGate} = {Throw, Return(FALSE)}
            /\ ~someEntryThrows(rule, parameters) => other = paramGate

\* The gate has thrown on a malformed pattern listed before an entry whose
\* parameter is missing; with the two entries swapped it returns false.
C23_Witness ==
    /\ paramGate = Throw
    /\ entriesOf(rule) = <<<<"channel", [pattern |-> "("]>>, <<"repo", [eq |-> Str("general")]>>>>
    /\ has(parameters, "channel") /\ ~has(parameters, "repo")
    /\ ruleMatchesParams(reordered(rule, <<2, 1>>), parameters) = Return(FALSE)

-----------------------------------------------------------------------------
(* A malformed pattern that is not reached (SpecEval)                      *)

\* Entry j of rule r carries a pattern that does not compile.
malformedEntry(r, j) ==
    /\ has(entriesOf(r)[j][2], "pattern")
    /\ ~RegExpCompiles(entriesOf(r)[j][2].pattern)

\* An entry of r listed before entry j fails or names a missing parameter.
earlierEntryStops(r, j, bag) ==
    \E m \in 1..(j - 1) :
        \/ lookup(bag, entriesOf(r)[m][1]) = Undefined
        \/ checkConstraint(entriesOf(r)[m][2], lookup(bag, entriesOf(r)[m][1])) = Return(FALSE)

\* A sub-test of the constraint that comes before pattern fails on the value.
earlierSubTestFails(c, v) ==
    \/ has(c, "in") /\ v \notin elements(c.in)
    \/ has(c, "notIn") /\ v \in elements(c.notIn)
    \/ has(c, "eq") /\ v # c.eq

\* The malformed pattern of entry j of rule i is not reached by the call, for
\* one of the four reasons of C24.
notReached(i, j) ==
    LET r == chain.rules[i] IN
    \/ \E k \in 1..(i - 1) : gatesPass(chain.rules[k], action, parameters)
    \/ ~ruleMatchesAction(r, action)
    \/ earlierEntryStops(r, j, parameters)
    \/ earlierSubTestFails(entriesOf(r)[j][2], lookup(parameters, entriesOf(r)[j][1]))

malformedEntries ==
    UNION {{<<i, j>> : j \in {m \in 1..Len(entriesOf(chain.rules[i])) :
                                  malformedEntry(chain.rules[i], m)}} :
           i \in 1..Len(chain.rules)}

\* C24: evaluateRuleChain returns a decision, without error, when every
\* malformed pattern of the chain is left unreached: its rule comes after the
\* first matching rule, or the action gate of its rule fails, or an earlier
\* entry of its rule fails or names a missing parameter, or an earlier
\* sub-test (in, notIn, eq) of its constraint fails.
C24_UnreachedPatternIsHarmless ==
    (result # NotCalled /\ \A e \in malformedEntries : notReached(e[1], e[2])) =>
        /\ result.kind = "return"
        /\ result.value.decision \in {"ALLOWED", "DENIED"}

\* A chain whose first rule carries a malformed pattern behind an eq that
\* fails, and whose second rule carries one behind a missing parameter, has
\* returned a decision.
C24_Witness ==
    /\ returned
    /\ Len(chain.rules) = 2
    /\ ruleMatchesAction(chain.rules[1], action)
    /\ entriesOf(chain.rules[1]) = <<<<"channel", [eq |-> Str("general"), pattern |-> "("]>>>>
    /\ entriesOf(chain.rules[2]) = <<<<"repo", [eq |-> Str("prod")]>>,
                                      <<"channel", [pattern |-> "("]>>>>
    /\ parameters = [channel |-> Str("ops")]

-----------------------------------------------------------------------------
(* A grant without rules still shadows the grants above it (SpecBuild)     *)

\* The stored grant carries no rules: null, or the empty array.
ruleless(id) == providerAccess[id].policyRules \in {Null, Arr(<<>>)}

\* The grants of the most specific principal that has any on the provider:
\* the workflow itself, else the nearest granted folder above it.
mostSpecificGrants(w, provider) ==
    LET direct == grantQuery("WORKFLOW", w, provider)
        near == grantedAncestors(w, provider)
    IN  IF direct # {} THEN direct
        ELSE IF near # {} THEN grantQuery("FOLDER", ancestorPath(w)[nearest(near)], provider)
        ELSE {}

\* The folder grants on the provider that are less specific than those, and
\* carry rules.
shadowedWithRules(w, provider) ==
    LET direct == grantQuery("WORKFLOW", w, provider)
        near == grantedAncestors(w, provider)
        from == IF direct # {} THEN 1 ELSE nearest(near) + 1
    IN  {id \in DOMAIN providerAccess :
            /\ ~ruleless(id)
            /\ \E i \in from..Len(ancestorPath(w)) :
                   id \in grantQuery("FOLDER", ancestorPath(w)[i], provider)}

\* C25: when the most specific grant on the provider (the direct WORKFLOW
\* grant, else the grant of the nearest granted folder) carries null or empty
\* rules, the chain holds no grant rule and is the provider's defaults alone,
\* whatever rules the grants of the folders above carry.
C25_RulelessGrantShadows ==
    (pc = "done" /\ mostSpecificGrants(workflowId, providerId) # {}
                /\ \A id \in mostSpecificGrants(workflowId, providerId) : ruleless(id)) =>
        /\ chain.rules = [i \in 1..Len(defaultArray) |-> withSource(defaultArray[i], "default")]
        /\ \A i \in 1..Len(chain.rules) : chain.rules[i].source # "grant"
        /\ \A id \in shadowedWithRules(workflowId, providerId) :
              \A i \in 1..Len(chain.rules) :
                  \/ withoutSource(chain.rules[i])
                        \notin elements(providerAccess[id].policyRules.items)
                  \/ withoutSource(chain.rules[i]) \in elements(defaultArray)

\* A chain of the defaults alone has been built for a workflow whose direct
\* grant holds the empty array while its folder's grant holds a rule.
C25_Witness ==
    /\ pc = "done"
    /\ grantQuery("WORKFLOW", workflowId, providerId) # {}
    /\ \A id \in grantQuery("WORKFLOW", workflowId, providerId) :
          providerAccess[id].policyRules = Arr(<<>>)
    /\ shadowedWithRules(workflowId, providerId) # {}
    /\ Len(chain.rules) > 0
    /\ \A i \in 1..Len(chain.rules) : chain.rules[i].source = "default"

-----------------------------------------------------------------------------
(* What a write of rules changes (SpecCrud)                                *)

\* The step is a call of the given write function.
writes(call_, setFn) == call_ # NotCalled /\ call_.fn = setFn

\* What the column holds after rules has been written to it.
written(rules) == IF rules = <<>> THEN Null ELSE Arr(rules)

\* C26: setGrantRules(id, R) stores R as the whole rule array of grant id
\* (null for the empty R), keeping nothing of the array before, and changes no
\* other column of that grant, no other grant, no provider, no workflow and no
\* folder; setProviderDefaultRules(id, R) does the same to the default rules
\* of provider id and changes no other provider and no grant.
C26_ReplaceWholeList ==
    /\ [][writes(crud', "setGrantRules") =>
            /\ providers' = providers
            /\ workflows' = workflows /\ workflowFolders' = workflowFolders
            /\ DOMAIN providerAccess' = DOMAIN providerAccess
            /\ \A g \in DOMAIN providerAccess :
                  IF g = crud'.id
                  THEN providerAccess'[g] =
                          grantRow(providerAccess[g].principleType,
                                   providerAccess[g].principleId,
                                   providerAccess[g].resourceId, written(crud'.rules))
                  ELSE providerAccess'[g] = providerAccess[g]]_vars
    /\ [][writes(crud', "setProviderDefaultRules") =>
            /\ providerAccess' = providerAccess
            /\ workflows' = workflows /\ workflowFolders' = workflowFolders
            /\ DOMAIN providers' = DOMAIN providers
            /\ \A q \in DOMAIN providers :
                  IF q = crud'.id
                  THEN providers'[q] = [defaultPolicyRules |-> written(crud'.rules)]
                  ELSE providers'[q] = providers[q]]_vars

\* Grant g1 holds the one rule last written to it, the grant of the folder
\* and the other provider hold what they held at the start, and the defaults
\* written to p1 before are still there.
C26_Witness ==
    /\ writes(crud, "setGrantRules")
    /\ crud.id = "g1" /\ crud.rules = <<rAllow>>
    /\ providerAccess["g1"].policyRules = Arr(<<rAllow>>)
    /\ providerAccess["gf1"].policyRules = Arr(<<rDenyList>>)
    /\ providerAccess["gx"].policyRules = Arr(<<rDenyAll>>)
    /\ providers["p1"].defaultPolicyRules = Arr(<<rDeny, rAllow>>)
    /\ providers["p2"].defaultPolicyRules = Null

-----------------------------------------------------------------------------
(* The chain built while rules are being written (SpecSnapshot)            *)

\* The rules of the applicable grant as the rule columns s hold them.
grantPart(s) ==
    IF grant = Null \/ s.grants[grant.id] = Null THEN <<>>
    ELSE s.grants[grant.id].items

\* The default rules of the provider as the rule columns s hold them.
defaultPart(s) ==
    IF providerId \notin DOMAIN s.defaults \/ s.defaults[providerId] = Null THEN <<>>
    ELSE s.defaults[providerId].items

\* The chain of the grant rules of sg followed by the default rules of sd.
chainIn(sg, sd) ==
    [rules |-> tagged(grantPart(sg), "grant") \o tagged(defaultPart(sd), "default")]

\* C27 as stated: the chain returned is that of one state of the store that
\* existed at an instant during the call.
C27_Original ==
    pc = "done" =>
        \E i \in 1..Len(snapshots.states) : chain = chainIn(snapshots.states[i], snapshots.states[i])

\* C27 (amended): the chain returned is the grant rules of a state of the
\* store that existed during the call followed by the default rules of the
\* state the store was in when the defaults were read, the last of the call;
\* the two states may differ.
C27_ChainOfTwoReads ==
    pc = "done" =>
        \E i \in 1..Len(snapshots.states) :
            chain = chainIn(snapshots.states[i], snapshots.states[Len(snapshots.states)])

\* A chain of a grant rule and a default rule has been returned although the
\* grant's rules were gone before the default rule was written: no state of
\* the store during the call held both.
C27_Witness ==
    /\ pc = "done"
    /\ Len(snapshots.states) = 3
    /\ Len(chain.rules) = 2
    /\ chain.rules[1].source = "grant" /\ chain.rules[2].source = "default"
    /\ chain = chainIn(snapshots.states[1], snapshots.states[3])
    /\ \A i \in 1..3 : chain # chainIn(snapshots.states[i], snapshots.states[i])

-----------------------------------------------------------------------------
(* The dry run's explanation of the chain (SpecDryRun)                     *)

\* POST /policies/evaluate has answered with a decision.
dryRunAnswered ==
    /\ http # NotCalled
    /\ http.route = evaluateRoute
    /\ has(http.response, "status")
    /\ http.response.status = 200

\* The positions of the chain whose rule matches the action and the
\* parameters of the request.
matchingPositions ==
    {i \in 1..Len(http.chain.rules) :
        /\ ruleMatchesAction(http.chain.rules[i], http.body.action)
        /\ ruleMatchesParams(http.chain.rules[i], http.body.parameters) = Return(TRUE)}

markedPositions ==
    {i \in 1..Len(http.response.data.chainEvaluated) :
        http.response.data.chainEvaluated[i].matched}

\* C28: in the response of the dry run, chainEvaluated has one entry per rule
\* of the built chain, in chain order; at most one entry is marked matched,
\* and it stands at the position of the first matching rule, also when a
\* later rule is identical to it; no entry is marked and matchedRule is null
\* exactly when no rule matched (implicit allow).
C28_DryRunExplains ==
    dryRunAnswered =>
        LET shown == http.response.data.chainEvaluated
            rules == http.chain.rules IN
        /\ Len(shown) = Len(rules)
        /\ \A i \in 1..Len(rules) :
              shown[i].source = rules[i].source /\ shown[i].rule = ruleDesc(rules[i])
        /\ Cardinality(markedPositions) <= 1
        /\ \A i \in markedPositions :
              i \in matchingPositions /\ \A j \in matchingPositions : i <= j
        /\ (markedPositions = {} /\ http.response.data.matchedRule = Null)
              <=> matchingPositions = {}
        /\ markedPositions = {} <=> http.response.data.matchedRule = Null
        /\ matchingPositions = {} =>
              http.response.data.decision = "ALLOWED"

\* A dry run whose chain holds the same grant rule twice, both matching: the
\* first is marked, the second is not.
C28_Witness ==
    /\ dryRunAnswered
    /\ Len(http.chain.rules) >= 2
    /\ http.chain.rules[1] = http.chain.rules[2]
    /\ matchingPositions = 1..Len(http.chain.rules)
    /\ markedPositions = {1}
    /\ http.response.data.matchedRule # Null

-----------------------------------------------------------------------------
(* Who may replace stored rules (SpecRoutes)                               *)

\* A PUT route has just answered the status to a caller who was nobody.
unauthenticated == http.user = Null

\* The provider a PUT request is about: the provider of the grant named, if
\* there is such a grant, or the provider named.
affectedProviders ==
    IF http.route = putGrantRulesRoute
    THEN IF http.params.grantId \in DOMAIN providerAccess
         THEN {providerAccess[http.params.grantId].resourceId}
         ELSE {}
    ELSE {http.params.providerId}

\* C29: a route that replaces stored rules answers 401 to a caller who is not
\* authenticated, answers 403 to an authenticated caller who is no admin and
\* has no access to the provider affected, and in both cases leaves every
\* stored rule array as it was.
C29_WritesNeedAccess ==
    [][/\ unauthenticated' =>
            http'.response.status = 401 /\ ruleColumns' = ruleColumns
       /\ (/\ ~unauthenticated'
           /\ ~http'.user.isAdmin
           /\ \E p \in affectedProviders' : ~hasProviderAccess(http'.user, p))
          => http'.response.status = 403 /\ ruleColumns' = ruleColumns]_vars

\* What the two routes do: 401 and no write for a caller who is nobody on
\* both; 403 and no write on the default-rules route for a caller without
\* access to the provider.
C29_WhatTheRoutesDo ==
    [][/\ unauthenticated' =>
            http'.response.status = 401 /\ ruleColumns' = ruleColumns
       /\ (/\ ~unauthenticated'
           /\ http'.route = putDefaultRulesRoute
           /\ ~http'.user.isAdmin
           /\ ~hasProviderAccess(http'.user, http'.params.providerId))
          => http'.response.status = 403 /\ ruleColumns' = ruleColumns]_vars

\* The guest, who has access to no provider, has replaced the rules of grant
\* g1 on provider p1 and got them back with a 200.
C29_Witness ==
    /\ http # NotCalled
    /\ http.route = putGrantRulesRoute
    /\ http.user # Null
    /\ http.user.id = "guest"
    /\ http.response.status = 200
    /\ http.params.grantId = "g1"
    /\ providerAccess["g1"].resourceId = "p1"
    /\ providerAccess["g1"].policyRules = Arr(<<rDeny>>)
    /\ http.response.data.rules = Arr(<<rDeny>>)

-----------------------------------------------------------------------------
(* Editing a rule without changing it (SpecEditor)                         *)

EditorActionNames == {"deleteRepo", "listRepos"}

EditorBags ==
    {EmptyObject, [repo |-> Str("prod")], [repo |-> Str("dev")], [repo |-> Str("1")],
     [repo |-> Num(1)], [repo |-> Bool(TRUE)],
     [repo |-> Str("prod"), channel |-> Str("ops")]}

\* The two rules have the same effect and match the same calls.
sameMeaning(r1, r2) ==
    /\ r1.effect = r2.effect
    /\ \A a \in EditorActionNames, bag \in EditorBags :
          /\ ruleMatchesAction(r1, a) = ruleMatchesAction(r2, a)
          /\ ruleMatchesParams(r1, bag) = ruleMatchesParams(r2, bag)

submitted == editor.editDialogOpen /\ ~editor'.editDialogOpen

\* C30: submitting the edit dialog of a rule as it was opened leaves a rule
\* with the same effect that matches exactly the same (action, parameters)
\* calls, also for a rule whose constraint combines several sub-tests and for
\* a rule whose eq, in or notIn values are numbers or booleans.
C30_EditPreservesMeaning ==
    [][submitted =>
          sameMeaning(editor.localRules[editor.editingIndex.n],
                      editor'.localRules[editor.editingIndex.n])]_vars

\* What holds: the edit keeps the effect and the action gate of every rule,
\* and keeps the meaning of a rule without constraints and of a rule whose
\* every constraint has one sub-test over strings free of commas and of
\* leading or trailing spaces.
plain(r) ==
    has(r, "parameterConstraints") =>
        \A i \in 1..Len(r.parameterConstraints) :
            r.parameterConstraints[i][2] \in
                {[in |-> <<Str("prod"), Str("dev")>>], [notIn |-> <<Str("prod")>>],
                 [eq |-> Str("prod")], [pattern |-> "^p"], [pattern |-> "^o"],
                 [startsWith |-> "pr"]}

C30_EditOfPlainRules ==
    [][submitted =>
          LET before == editor.localRules[editor.editingIndex.n]
              after == editor'.localRules[editor.editingIndex.n] IN
          /\ before.effect = after.effect
          /\ before.action = after.action
          /\ plain(before) => sameMeaning(before, after)]_vars

\* A rule that denied repo values among prod and dev that begin with d has
\* been through the dialog: it now denies prod as well.
C30_Witness ==
    /\ editor # NotCalled
    /\ ~editor.editDialogOpen
    /\ editor.editingIndex = Num(1)
    /\ editor.editingForm.constraints =
          <<[param |-> "repo", type |-> "in", value |-> "prod, dev"]>>
    /\ editor.localRules[1] =
          [effect |-> "DENY", action |-> Null,
           parameterConstraints |-> <<<<"repo", [in |-> <<Str("prod"), Str("dev")>>]>>>>]
    /\ ruleMatchesParams(editor.localRules[1], [repo |-> Str("prod")]) = Return(TRUE)
    /\ ruleMatchesParams([effect |-> "DENY", action |-> Null,
                          parameterConstraints |->
                              <<<<"repo", [in |-> <<Str("prod"), Str("dev")>>,
                                           pattern |-> "^d"]>>>>],
                         [repo |-> Str("prod")]) = Return(FALSE)

====
